---- MODULE Spec2Model ----
(***************************************************************************)
(* A model of the tread.h terminal engine (src/src/tread.h): the session   *)
(* lifecycle (TR_InitWindow / TR_CloseWindow), the per-frame input sample  *)
(* and resize check (TR_BeginDrawing), the diff-based flush and frame      *)
(* pacing (TR_EndDrawing), the 2D primitives and the key-code decoder, on  *)
(* both build targets (POSIX termios/ANSI and the Windows console), and    *)
(* the 3D primitives of a build with TR_3D: the depth-tested triangle      *)
(* fill, the filled cube and the Bresenham line.                           *)
(***************************************************************************)
EXTENDS Integers, Sequences, FiniteSets, TLC

VARIABLES
    platform,                     \* build target: "posix" or "win" (#ifdef _WIN32)
    proc,                         \* "running", or how the process ended
    __tr_window_open,
    __tr_frame_time_us,
    __tr_key_buffer,
    __tr_screen_buffer,
    __tr_prev_screen_buffer,
    __tr_buffer_width,
    __tr_buffer_height,
    __tr_current_bg_color,
    __tr_initial_width,
    __tr_initial_height,
    __tr_z_buffer,                \* the depth buffer (a build with TR_3D)
    __tr_z_buffer_size,
    __tr_original_termios,        \* POSIX static
    __tr_original_in_mode,        \* Windows static (DWORD)
    __tr_original_sigint_action,  \* POSIX static
    term_size,                    \* the terminal's size now: <<columns, rows>>
    tty_mode,                     \* the terminal's input mode now
    stdin_pending,                \* bytes typed and not yet read
    sigint_chain,                 \* SIGINT / Ctrl-C handlers, the first one decides
    display,                      \* what the terminal shows: a <<glyph, attribute>>
                                  \* per cell, row by row
    elapsed_ns,                   \* monotonic clock minus the recorded frame start
    pc,                           \* "run", or "sleep" inside TR_EndDrawing's pacing
    sleep_req,                    \* the pending sleep request (ns)
    op,                           \* the last engine call made (or "SIGINT")
    ret,                          \* what the last call returned
    out,                          \* the terminal commands the last call emitted
    pre_open_mode,                \* the input mode the terminal had at the last open
    pre_open_sigint,              \* the SIGINT chain the process had at the last open
    key_was,                      \* the last-key slot before the last call that wrote it
    frame_diff,                   \* cells in which the last flushed frame differed from
                                  \* the frame before it, compared field by field
    call_args,                    \* the arguments the calls of a run are made with
    depth_fresh                   \* depth-buffer indexes written by a triangle since
                                  \* the frame began

engine == <<__tr_window_open, __tr_frame_time_us, __tr_key_buffer,
            __tr_screen_buffer, __tr_prev_screen_buffer, __tr_buffer_width,
            __tr_buffer_height, __tr_current_bg_color, __tr_initial_width,
            __tr_initial_height, __tr_z_buffer, __tr_z_buffer_size>>
saved == <<__tr_original_termios, __tr_original_in_mode, __tr_original_sigint_action>>
env == <<term_size, tty_mode, stdin_pending, sigint_chain, display>>
pace == <<elapsed_ns, pc, sleep_req>>
trace == <<op, ret, out>>
ghost == <<pre_open_mode, pre_open_sigint, frame_diff, call_args, depth_fresh>>
vars == <<platform, proc, engine, saved, env, pace, trace, ghost, key_was>>

----------------------------------------------------------------------------
\* Bounds of the model

\* widest terminal, in columns
MaxCols == 2
\* a key is typed only while fewer bytes than this wait on stdin
MaxWaiting == 2
\* the frame clock saturates after this many ticks
MaxTicks == 3

\* terminal sizes: the size query failing, and 1..MaxCols columns by 2 rows
TermSizes == {<<0, 0>>} \cup {<<w, 2>> : w \in 1..MaxCols}

\* the frame clock stops counting here, beyond every frame period of the model
ElapsedCap == MaxTicks * 500000

----------------------------------------------------------------------------
\* Colours: <<r, g, b, a>>

BLANK == <<1, 0, 0, 0>>
BLACK == <<0, 0, 0, 255>>
WHITE == <<255, 255, 255, 255>>
RED == <<230, 41, 55, 255>>
GREEN == <<0, 200, 0, 255>>
BLUE == <<0, 121, 241, 255>>
\* black with another alpha: equal to BLACK in r, g and b only
BLACK_A0 == <<0, 0, 0, 0>>

TR_KEY_UP == 256
TR_KEY_DOWN == 257
TR_KEY_LEFT == 258
TR_KEY_RIGHT == 259
TR_KEY_ESCAPE == 27
TR_KEY_F1 == 260
TR_KEY_F2 == 261
TR_KEY_F3 == 262
TR_KEY_F4 == 263
TR_KEY_F5 == 264
TR_KEY_F6 == 265
TR_KEY_F7 == 266
TR_KEY_F8 == 267
TR_KEY_F9 == 268
TR_KEY_F10 == 269
TR_KEY_F11 == 270
TR_KEY_F12 == 271

NULL == <<>>

Cell(ch, fg, bg) == [character |-> ch, fg_color |-> fg, bg_color |-> bg]

\* a buffer of n cells, every one equal to c
Filled(n, c) == [i \in 1..n |-> c]

__tr_colors_equal(c1, c2) == c1[1] = c2[1] /\ c1[2] = c2[2] /\ c1[3] = c2[3]

----------------------------------------------------------------------------
\* Colour mapping and the terminal commands of the two backends

terminal_colors == << <<0, 0, 0, 255>>, <<255, 0, 0, 255>>, <<0, 255, 0, 255>>,
                      <<255, 255, 0, 255>>, <<0, 0, 255, 255>>, <<255, 0, 255, 255>>,
                      <<0, 255, 255, 255>>, <<255, 255, 255, 255>> >>

\* a distance that looks at the red channel only
ColorDist_RedOnly(color, i) ==
    LET t == terminal_colors[i + 1]
    IN  (color[1] - t[1]) * (color[1] - t[1])

\* squared RGB distance of color to the i-th (0-based) terminal colour
ColorDist(color, i) ==
    LET t == terminal_colors[i + 1]
    IN  (color[1] - t[1]) * (color[1] - t[1]) +
        (color[2] - t[2]) * (color[2] - t[2]) +
        (color[3] - t[3]) * (color[3] - t[3])

\* the scan loop of __tr_map_color_to_terminal from index i on
RECURSIVE MapColorScan(_, _, _, _)
MapColorScan(color, i, min_dist, best_match) ==
    IF i >= 8 THEN best_match
    ELSE IF min_dist = -1 \/ ColorDist(color, i) < min_dist
         THEN MapColorScan(color, i + 1, ColorDist(color, i), i)
         ELSE MapColorScan(color, i + 1, min_dist, best_match)

__tr_map_color_to_terminal(color, is_background) == MapColorScan(color, 0, -1, 0)

\* the brightness heuristic shared by both backends
IsBright(c) == c[1] > 128 \/ c[2] > 128 \/ c[3] > 128

\* bit b (0, 1, 2) of a palette index
CodeBit(code, b) == (code \div (2 ^ b)) % 2

\* the console attribute word of the Windows backend
WinAttributes(fg_color, bg_color) ==
    LET fg_code == __tr_map_color_to_terminal(fg_color, FALSE)
        bg_code == __tr_map_color_to_terminal(bg_color, TRUE)
    IN  4 * CodeBit(fg_code, 0) + 2 * CodeBit(fg_code, 1) + CodeBit(fg_code, 2)
        + (IF IsBright(fg_color) THEN 8 ELSE 0)
        + 64 * CodeBit(bg_code, 0) + 32 * CodeBit(bg_code, 1) + 16 * CodeBit(bg_code, 2)
        + (IF IsBright(bg_color) THEN 128 ELSE 0)

\* the background half of that word, as __tr_clear_screen_direct builds it
WinBgAttributes(bg_color) ==
    LET bg_code == __tr_map_color_to_terminal(bg_color, TRUE)
    IN  64 * CodeBit(bg_code, 0) + 32 * CodeBit(bg_code, 1) + 16 * CodeBit(bg_code, 2)
        + (IF IsBright(bg_color) THEN 128 ELSE 0)

__tr_set_terminal_color(p, fg_color, bg_color) ==
    IF p = "win"
    THEN << <<"attr", WinAttributes(fg_color, bg_color)>> >>
    ELSE << <<"sgr",
              30 + __tr_map_color_to_terminal(fg_color, FALSE)
                 + (IF IsBright(fg_color) THEN 60 ELSE 0),
              40 + __tr_map_color_to_terminal(bg_color, TRUE)
                 + (IF IsBright(bg_color) THEN 60 ELSE 0)>> >>

__tr_set_cursor_position(x, y) == << <<"cursor", x, y>> >>

__tr_set_cursor_visibility(visible) == << <<"cursor_visible", visible>> >>

__tr_set_console_title == << <<"title">> >>

__tr_clear_screen_direct(p, bg_color) ==
    IF p = "win"
    THEN << <<"fill", " ", WinBgAttributes(bg_color)>> >> \o __tr_set_cursor_position(0, 0)
    ELSE __tr_set_terminal_color(p, BLACK, bg_color) \o << <<"clear">>, <<"home">> >>

\* "\x1b[0m" on POSIX, __tr_set_terminal_color(WHITE, BLACK) on Windows
ResetColors(p) ==
    IF p = "win" THEN __tr_set_terminal_color(p, WHITE, BLACK) ELSE << <<"sgr0">> >>

\* does a command sequence hold a command of this kind
Emits(cmds, kind) == \E i \in 1..Len(cmds) : cmds[i][1] = kind

\* The terminal: what it shows after a sequence of commands.  A shown cell is
\* <<glyph, attribute>>; the attribute is the console attribute word on Windows
\* and the pair of SGR codes <<foreground, background>> on POSIX.

\* the attribute in effect before any colour is set: light grey on black on the
\* console, the default colours (SGR 39 and 49) on POSIX
DefaultAttr(p) == IF p = "win" THEN 4 + 2 + 1 ELSE <<39, 49>>

\* a cell showing what was on the terminal before the session
StaleCell(p) == <<"$", DefaultAttr(p)>>

\* the attribute a colour command puts in effect
AttrOf(c) == IF c[1] = "attr" THEN c[2] ELSE <<c[2], c[3]>>

\* the cells after the commands from the i-th on, with the cursor at <<x, y>>
\* and attr in effect; size is the terminal's <<columns, rows>>
RECURSIVE ShowFrom(_, _, _, _, _, _, _)
ShowFrom(cells, p, size, cursor, attr, cmds, i) ==
    IF i > Len(cmds) THEN cells
    ELSE LET c == cmds[i]
         IN  CASE c[1] \in {"sgr", "attr"} ->
                    ShowFrom(cells, p, size, cursor, AttrOf(c), cmds, i + 1)
               [] c[1] = "sgr0" ->
                    ShowFrom(cells, p, size, cursor, DefaultAttr(p), cmds, i + 1)
               [] c[1] = "cursor" ->
                    ShowFrom(cells, p, size, <<c[2], c[3]>>, attr, cmds, i + 1)
               [] c[1] = "home" ->
                    ShowFrom(cells, p, size, <<0, 0>>, attr, cmds, i + 1)
               \* erase in display: every cell blank in the colours in effect
               [] c[1] = "clear" ->
                    ShowFrom(Filled(Len(cells), <<" ", attr>>), p, size, cursor, attr,
                             cmds, i + 1)
               [] c[1] = "fill" ->
                    ShowFrom(Filled(Len(cells), <<c[2], c[3]>>), p, size, cursor, attr,
                             cmds, i + 1)
               [] c[1] = "putc" ->
                    ShowFrom(IF cursor[1] >= 0 /\ cursor[1] < size[1]
                                  /\ cursor[2] >= 0 /\ cursor[2] < size[2]
                             THEN [cells EXCEPT ![cursor[2] * size[1] + cursor[1] + 1] =
                                                    <<c[2], attr>>]
                             ELSE cells,
                             p, size, <<cursor[1] + 1, cursor[2]>>, attr, cmds, i + 1)
               [] OTHER -> ShowFrom(cells, p, size, cursor, attr, cmds, i + 1)

\* the terminal after one call's commands
Show(cells, p, size, cmds) == ShowFrom(cells, p, size, <<0, 0>>, DefaultAttr(p), cmds, 1)

\* the terminal after a resize: the cells it keeps stay where they were
Resized(cells, p, old, size) ==
    [i \in 1..(size[1] * size[2]) |->
        LET x == (i - 1) % size[1]
            y == (i - 1) \div size[1]
        IN  IF x < old[1] /\ y < old[2] THEN cells[y * old[1] + x + 1]
            ELSE <<" ", DefaultAttr(p)>>]

\* a depth-buffer entry nobody has written: not a number
Uninit == <<0, 0>>

----------------------------------------------------------------------------
\* Key decoding

Min(a, b) == IF a < b THEN a ELSE b

\* sizeof(buf) in the POSIX reader
BufSize == 8

\* what the stack may hold where read() stored nothing: buf[4] and buf[5] matter
GarbageBytes == {0, 126}
GarbageBufs ==
    {[i \in 0..7 |-> IF i = 4 THEN a ELSE IF i = 5 THEN b ELSE 0] :
        a \in GarbageBytes, b \in GarbageBytes}

\* strcmp(&buf[2], s) == 0 for a 3-character literal s: the terminating 0 must match too
StrcmpEq(buf, s) == buf[2] = s[1] /\ buf[3] = s[2] /\ buf[4] = s[3] /\ buf[5] = 0

\* POSIX: <<key code, bytes taken from stdin>>; g is buf before the read
GetKeyPosix(pending, g) ==
    LET bytes_read == Min(Len(pending), BufSize)
        buf == [i \in 0..7 |-> IF i < bytes_read THEN pending[i + 1] ELSE g[i]]
        key ==
          IF bytes_read > 0
          THEN IF buf[0] = 27
               THEN IF bytes_read = 3 /\ buf[1] = 91
                    THEN CASE buf[2] = 65 -> TR_KEY_UP
                           [] buf[2] = 66 -> TR_KEY_DOWN
                           [] buf[2] = 67 -> TR_KEY_RIGHT
                           [] buf[2] = 68 -> TR_KEY_LEFT
                           [] OTHER -> 0
                    ELSE IF bytes_read = 3 /\ buf[1] = 79
                    THEN CASE buf[2] = 80 -> TR_KEY_F1
                           [] buf[2] = 81 -> TR_KEY_F2
                           [] buf[2] = 82 -> TR_KEY_F3
                           [] buf[2] = 83 -> TR_KEY_F4
                           [] OTHER -> 0
                    ELSE IF bytes_read = 4 /\ buf[1] = 91
                    THEN CASE StrcmpEq(buf, <<49, 53, 126>>) -> TR_KEY_F5
                           [] StrcmpEq(buf, <<49, 55, 126>>) -> TR_KEY_F6
                           [] StrcmpEq(buf, <<49, 56, 126>>) -> TR_KEY_F7
                           [] StrcmpEq(buf, <<49, 57, 126>>) -> TR_KEY_F8
                           [] StrcmpEq(buf, <<50, 48, 126>>) -> TR_KEY_F9
                           [] StrcmpEq(buf, <<50, 49, 126>>) -> TR_KEY_F10
                           [] StrcmpEq(buf, <<50, 51, 126>>) -> TR_KEY_F11
                           [] StrcmpEq(buf, <<50, 52, 126>>) -> TR_KEY_F12
                           [] OTHER -> 0
                    ELSE 0
               ELSE buf[0]
          ELSE 0
    IN  <<key, bytes_read>>

\* Windows: <<key code, codes taken by _getch>>
GetKeyWin(pending) ==
    IF Len(pending) = 0 THEN <<0, 0>>
    ELSE IF pending[1] = 0 \/ pending[1] = 224
         THEN LET key == pending[2]
              IN  << CASE key = 72 -> TR_KEY_UP
                       [] key = 80 -> TR_KEY_DOWN
                       [] key = 75 -> TR_KEY_LEFT
                       [] key = 77 -> TR_KEY_RIGHT
                       [] key = 59 -> TR_KEY_F1
                       [] key = 60 -> TR_KEY_F2
                       [] key = 61 -> TR_KEY_F3
                       [] key = 62 -> TR_KEY_F4
                       [] key = 63 -> TR_KEY_F5
                       [] key = 64 -> TR_KEY_F6
                       [] key = 65 -> TR_KEY_F7
                       [] key = 66 -> TR_KEY_F8
                       [] key = 67 -> TR_KEY_F9
                       [] key = 68 -> TR_KEY_F10
                       [] key = 85 -> TR_KEY_F11
                       [] key = 86 -> TR_KEY_F12
                       [] OTHER -> 0,
                     2 >>
         ELSE <<pending[1], 1>>

__tr_get_key_nonblocking(p, pending, g) ==
    IF p = "win" THEN GetKeyWin(pending) ELSE GetKeyPosix(pending, g)

\* the second _getch of an extended key blocks until its scan code is there
KeyReadBlocks(p, pending) ==
    p = "win" /\ Len(pending) = 1 /\ pending[1] \in {0, 224}

\* the rest of stdin after n bytes were taken
DropBytes(pending, n) == SubSeq(pending, n + 1, Len(pending))

----------------------------------------------------------------------------
\* Terminal input modes and the interrupt handlers

CookedTermios == [c_lflag |-> {"ICANON", "ECHO", "ISIG"}, VMIN |-> 1, VTIME |-> 0]
NoEchoTermios == [c_lflag |-> {"ICANON", "ISIG"}, VMIN |-> 1, VTIME |-> 0]
\* a static struct termios nobody has written
ZeroTermios == [c_lflag |-> {}, VMIN |-> 0, VTIME |-> 0]

CookedConsole == {"ENABLE_LINE_INPUT", "ENABLE_ECHO_INPUT", "ENABLE_PROCESSED_INPUT"}
NoEchoConsole == {"ENABLE_LINE_INPUT", "ENABLE_PROCESSED_INPUT"}
\* a static DWORD nobody has written: no flag set
ZeroConsoleMode == {}

CookedMode(p) == IF p = "win" THEN CookedConsole ELSE CookedTermios

StartModes(p) ==
    IF p = "win" THEN {CookedConsole, NoEchoConsole} ELSE {CookedTermios, NoEchoTermios}

\* the mode TR_InitWindow puts the terminal in
__tr_set_raw_mode(p, mode) ==
    IF p = "win"
    THEN mode \ {"ENABLE_LINE_INPUT", "ENABLE_ECHO_INPUT"}
    ELSE [mode EXCEPT !.c_lflag = @ \ {"ICANON", "ECHO"}, !.VMIN = 0, !.VTIME = 0]

\* the mode TR_CloseWindow writes back
__tr_restore_terminal_mode(p, original_termios, original_in_mode) ==
    IF p = "win" THEN original_in_mode ELSE original_termios

TrHandler(p) == IF p = "win" THEN "__tr_ctrl_c_handler" ELSE "__tr_sigint_handler"

\* an open that installs no handler
InstallHandler_None(p, chain) == chain

\* sigaction(SIGINT, &sa, &old) replaces; SetConsoleCtrlHandler(h, TRUE) adds in front
InstallHandler(p, chain) ==
    IF p = "win" THEN <<TrHandler(p)>> \o chain ELSE <<TrHandler(p)>>

\* sigaction(SIGINT, &old, NULL) puts old back; SetConsoleCtrlHandler(h, FALSE) removes h
RemoveHandler(p, chain, original_sigint_action) ==
    IF p = "win"
    THEN IF Len(chain) > 0 /\ Head(chain) = TrHandler(p) THEN Tail(chain) ELSE chain
    ELSE <<original_sigint_action>>

----------------------------------------------------------------------------
\* The engine's calls.  A call is made while the process runs and is not asleep.

CanCall == proc = "running" /\ pc = "run"

\* the cell of a buffer at (x, y): index = y * width + x
CellAt(buf, width, x, y) == buf[y * width + x + 1]

\* the logical size a session asks for: no terminal of the model is that large
MAP_WIDTH == 40
MAP_HEIGHT == 20

\* a width query that answers the width the session asked for
TR_GetScreenWidth_Requested == MAP_WIDTH

TR_GetScreenWidth == term_size[1]
TR_GetScreenHeight == term_size[2]

\* TR_InitWindow past its open-flag test: modes, handler, sizes, buffers, first clear
OpenWindow(malloc_ok) ==
    /\ pre_open_mode' = tty_mode
    /\ pre_open_sigint' = sigint_chain
    /\ UNCHANGED <<frame_diff, call_args>>
    /\ tty_mode' = __tr_set_raw_mode(platform, tty_mode)
    /\ __tr_original_termios' =
           IF platform = "win" THEN __tr_original_termios ELSE tty_mode
    \* tcsetattr(TCSAFLUSH) discards the input not yet read
    /\ stdin_pending' = IF platform = "win" THEN stdin_pending ELSE <<>>
    /\ sigint_chain' = InstallHandler(platform, sigint_chain)
    /\ __tr_original_sigint_action' =
           IF platform = "win" THEN __tr_original_sigint_action
           ELSE Head(sigint_chain)
    /\ __tr_buffer_width' = TR_GetScreenWidth
    /\ __tr_buffer_height' = TR_GetScreenHeight
    /\ __tr_initial_width' = TR_GetScreenWidth
    /\ __tr_initial_height' = TR_GetScreenHeight
    /\ IF TR_GetScreenWidth = 0 \/ TR_GetScreenHeight = 0
       THEN /\ proc' = "exit_dims"
            /\ out' = <<>>
            /\ UNCHANGED <<__tr_window_open, __tr_frame_time_us, __tr_key_buffer,
                           __tr_screen_buffer, __tr_prev_screen_buffer,
                           __tr_current_bg_color, key_was, __tr_z_buffer,
                           __tr_z_buffer_size, display, depth_fresh>>
       ELSE IF ~malloc_ok
       THEN /\ proc' = "exit_alloc"
            /\ out' = <<>>
            /\ UNCHANGED <<__tr_window_open, __tr_frame_time_us, __tr_key_buffer,
                           __tr_screen_buffer, __tr_prev_screen_buffer,
                           __tr_current_bg_color, key_was, __tr_z_buffer,
                           __tr_z_buffer_size, display, depth_fresh>>
       ELSE /\ __tr_screen_buffer' =
                   Filled(TR_GetScreenWidth * TR_GetScreenHeight,
                          Cell(" ", BLACK, BLACK))
            /\ __tr_prev_screen_buffer' =
                   Filled(TR_GetScreenWidth * TR_GetScreenHeight,
                          Cell(" ", BLACK, BLACK))
            \* malloc'ed and not written: every entry holds what the heap held
            /\ __tr_z_buffer_size' = TR_GetScreenWidth * TR_GetScreenHeight
            /\ __tr_z_buffer' =
                   Filled(TR_GetScreenWidth * TR_GetScreenHeight, Uninit)
            /\ depth_fresh' = {}
            /\ __tr_current_bg_color' = BLACK
            /\ out' = __tr_set_console_title
                        \o __tr_set_cursor_visibility(FALSE)
                        \o __tr_clear_screen_direct(platform, BLACK)
            /\ display' = Show(display, platform, term_size, out')
            /\ __tr_window_open' = TRUE
            /\ __tr_frame_time_us' = 0
            /\ __tr_key_buffer' = 0
            /\ key_was' = __tr_key_buffer
            /\ UNCHANGED proc

\* an open that does not look at the open flag
TR_InitWindow_NoGuard(width, height, malloc_ok) ==
    /\ CanCall
    /\ op' = "TR_InitWindow"
    /\ ret' = "void"
    /\ UNCHANGED <<platform, term_size, pace, __tr_original_in_mode>>
    /\ OpenWindow(malloc_ok)

\* width and height are ignored; malloc_ok: do the buffer allocations succeed
TR_InitWindow(width, height, malloc_ok) ==
    /\ CanCall
    /\ op' = "TR_InitWindow"
    /\ ret' = "void"
    /\ UNCHANGED <<platform, term_size, pace, __tr_original_in_mode>>
    /\ IF __tr_window_open
       THEN /\ out' = <<>>
            /\ UNCHANGED <<proc, engine, __tr_original_termios,
                           __tr_original_sigint_action, tty_mode, stdin_pending,
                           sigint_chain, display, ghost, key_was>>
       ELSE OpenWindow(malloc_ok)

TR_CloseWindow ==
    /\ CanCall
    /\ op' = "TR_CloseWindow"
    /\ ret' = "void"
    /\ UNCHANGED <<key_was, platform, proc, term_size, pace, saved, ghost,
                   __tr_frame_time_us, __tr_key_buffer, __tr_buffer_width,
                   __tr_buffer_height, __tr_current_bg_color, __tr_initial_width,
                   __tr_initial_height, __tr_z_buffer_size>>
    /\ IF ~__tr_window_open
       THEN /\ out' = <<>>
            /\ UNCHANGED <<__tr_window_open, __tr_screen_buffer,
                           __tr_prev_screen_buffer, __tr_z_buffer, tty_mode,
                           stdin_pending, sigint_chain, display>>
       ELSE /\ tty_mode' = __tr_restore_terminal_mode(platform, __tr_original_termios,
                                                     __tr_original_in_mode)
            /\ stdin_pending' = IF platform = "win" THEN stdin_pending ELSE <<>>
            /\ sigint_chain' = RemoveHandler(platform, sigint_chain,
                                             __tr_original_sigint_action)
            /\ out' = ResetColors(platform)
                        \o __tr_set_cursor_visibility(TRUE)
                        \o __tr_set_cursor_position(0, 0)
                        \o __tr_clear_screen_direct(platform, BLACK)
            /\ display' = Show(display, platform, term_size, out')
            /\ __tr_screen_buffer' = NULL
            /\ __tr_prev_screen_buffer' = NULL
            /\ __tr_z_buffer' = NULL
            /\ __tr_window_open' = FALSE

\* a close test that knows Escape only
TR_WindowShouldClose_EscOnly == __tr_key_buffer = 27

TR_WindowShouldClose == __tr_key_buffer = 27 \/ __tr_key_buffer = 113

TR_IsKeyDown(key) == __tr_key_buffer = key

TR_IsKeyPressed(key) == __tr_key_buffer = key

\* a period worked out in milliseconds
TR_SetTargetFPS_Millis(fps) ==
    /\ CanCall
    /\ op' = "TR_SetTargetFPS"
    /\ ret' = "void"
    /\ out' = <<>>
    /\ __tr_frame_time_us' = IF fps > 0 THEN 1000 \div fps ELSE 0
    /\ UNCHANGED <<key_was, platform, proc, saved, env, pace, ghost, __tr_window_open,
                   __tr_key_buffer, __tr_screen_buffer, __tr_prev_screen_buffer,
                   __tr_buffer_width, __tr_buffer_height, __tr_current_bg_color,
                   __tr_initial_width, __tr_initial_height, __tr_z_buffer,
                   __tr_z_buffer_size>>

TR_SetTargetFPS(fps) ==
    /\ CanCall
    /\ op' = "TR_SetTargetFPS"
    /\ ret' = "void"
    /\ out' = <<>>
    /\ __tr_frame_time_us' = IF fps > 0 THEN 1000000 \div fps ELSE 0
    /\ UNCHANGED <<key_was, platform, proc, saved, env, pace, ghost, __tr_window_open,
                   __tr_key_buffer, __tr_screen_buffer, __tr_prev_screen_buffer,
                   __tr_buffer_width, __tr_buffer_height, __tr_current_bg_color,
                   __tr_initial_width, __tr_initial_height, __tr_z_buffer,
                   __tr_z_buffer_size>>

\* a resize check that forgets the width
ResizeDetected_HeightOnly == TR_GetScreenHeight # __tr_initial_height

\* the resize check at the top of a frame
ResizeDetected ==
    TR_GetScreenWidth # __tr_initial_width \/ TR_GetScreenHeight # __tr_initial_height

\* a resize exit that leaves the cursor hidden
ResizeCleanup_NoCursor(p) == ResetColors(p) \o __tr_clear_screen_direct(p, BLACK)

\* what the resize exit sends to the terminal before exit(1)
ResizeCleanup(p) ==
    ResetColors(p) \o __tr_set_cursor_visibility(TRUE) \o __tr_clear_screen_direct(p, BLACK)

\* an input read that keeps the slot when no key is pending
ReadInput_KeepOnNone(g) ==
    LET got == __tr_get_key_nonblocking(platform, stdin_pending, g)
    IN  /\ __tr_key_buffer' = IF got[1] = 0 THEN __tr_key_buffer ELSE got[1]
        /\ stdin_pending' = DropBytes(stdin_pending, got[2])

\* __tr_key_buffer = __tr_get_key_nonblocking();
ReadInput(g) ==
    LET got == __tr_get_key_nonblocking(platform, stdin_pending, g)
    IN  /\ __tr_key_buffer' = got[1]
        /\ stdin_pending' = DropBytes(stdin_pending, got[2])

TR_BeginDrawing(g) ==
    /\ CanCall
    /\ ~(__tr_window_open /\ ~ResizeDetected /\ KeyReadBlocks(platform, stdin_pending))
    /\ op' = "TR_BeginDrawing"
    /\ ret' = "void"
    /\ UNCHANGED <<platform, saved, pre_open_mode, pre_open_sigint, frame_diff,
                   call_args, term_size, tty_mode, sigint_chain,
                   pc, sleep_req, __tr_window_open, __tr_frame_time_us,
                   __tr_prev_screen_buffer, __tr_buffer_width, __tr_buffer_height,
                   __tr_current_bg_color, __tr_initial_width, __tr_initial_height,
                   __tr_z_buffer, __tr_z_buffer_size>>
    /\ IF ~__tr_window_open
       THEN /\ out' = <<>>
            /\ UNCHANGED <<proc, elapsed_ns, stdin_pending, __tr_key_buffer,
                           __tr_screen_buffer, key_was, display, depth_fresh>>
       ELSE IF ResizeDetected
       THEN /\ out' = ResizeCleanup(platform)
            /\ display' = Show(display, platform, term_size, out')
            /\ proc' = "exit_resize"
            /\ UNCHANGED <<elapsed_ns, stdin_pending, __tr_key_buffer,
                           __tr_screen_buffer, key_was, depth_fresh>>
       ELSE /\ elapsed_ns' = 0
            /\ depth_fresh' = {}
            /\ UNCHANGED display
            /\ ReadInput(g)
            /\ key_was' = __tr_key_buffer
            /\ __tr_screen_buffer' =
                   Filled(__tr_buffer_width * __tr_buffer_height,
                          Cell(" ", __tr_current_bg_color, __tr_current_bg_color))
            /\ out' = <<>>
            /\ UNCHANGED proc

\* a scan that looks at the glyph and the foreground only
CellChanged_NoBg(current_cell, prev_cell) ==
    \/ current_cell.character # prev_cell.character
    \/ ~__tr_colors_equal(current_cell.fg_color, prev_cell.fg_color)

\* the test of TR_EndDrawing's scan: does the cell have to be written again
CellChanged(current_cell, prev_cell) ==
    \/ current_cell.character # prev_cell.character
    \/ ~__tr_colors_equal(current_cell.fg_color, prev_cell.fg_color)
    \/ ~__tr_colors_equal(current_cell.bg_color, prev_cell.bg_color)

\* a scan that writes a changed cell's glyph without setting its colours
RECURSIVE FlushFrom_NoColor(_, _, _, _, _)
FlushFrom_NoColor(p, cur, prev, width, index) ==
    IF index >= Len(cur) THEN <<>>
    ELSE (IF CellChanged(cur[index + 1], prev[index + 1])
          THEN __tr_set_cursor_position(index % width, index \div width)
                 \o << <<"putc", cur[index + 1].character>> >>
          ELSE <<>>)
         \o FlushFrom_NoColor(p, cur, prev, width, index + 1)

\* the commands of the scan from index on (row-major: index = y * width + x)
RECURSIVE FlushFrom(_, _, _, _, _)
FlushFrom(p, cur, prev, width, index) ==
    IF index >= Len(cur) THEN <<>>
    ELSE (IF CellChanged(cur[index + 1], prev[index + 1])
          THEN __tr_set_cursor_position(index % width, index \div width)
                 \o __tr_set_terminal_color(p, cur[index + 1].fg_color,
                                            cur[index + 1].bg_color)
                 \o << <<"putc", cur[index + 1].character>> >>
          ELSE <<>>)
         \o FlushFrom(p, cur, prev, width, index + 1)

\* the length of the sleep the backend is asked for, from the remainder sleep_ns
SleepRequest(p, sleep_ns) ==
    IF p = "win" THEN (sleep_ns \div 1000000) * 1000000 ELSE sleep_ns

TR_EndDrawing ==
    /\ CanCall
    /\ op' = "TR_EndDrawing"
    /\ ret' = "void"
    /\ UNCHANGED <<key_was, platform, proc, saved, term_size, tty_mode, stdin_pending,
                   sigint_chain, pre_open_mode, pre_open_sigint,
                   call_args, depth_fresh, elapsed_ns, __tr_window_open,
                   __tr_frame_time_us, __tr_key_buffer, __tr_screen_buffer,
                   __tr_buffer_width, __tr_buffer_height, __tr_current_bg_color,
                   __tr_initial_width, __tr_initial_height, __tr_z_buffer,
                   __tr_z_buffer_size>>
    /\ IF ~__tr_window_open
       THEN /\ out' = <<>>
            /\ UNCHANGED <<__tr_prev_screen_buffer, pc, sleep_req, frame_diff, display>>
       ELSE /\ frame_diff' =
                   Cardinality({i \in 1..Len(__tr_screen_buffer) :
                                  __tr_screen_buffer[i] # __tr_prev_screen_buffer[i]})
            /\ out' = FlushFrom(platform, __tr_screen_buffer, __tr_prev_screen_buffer,
                                __tr_buffer_width, 0)
            /\ display' = Show(display, platform, term_size, out')
            /\ __tr_prev_screen_buffer' = __tr_screen_buffer
            /\ IF __tr_frame_time_us > 0 /\ elapsed_ns < __tr_frame_time_us * 1000
               THEN /\ pc' = "sleep"
                    /\ sleep_req' = SleepRequest(platform,
                                        __tr_frame_time_us * 1000 - elapsed_ns)
               ELSE UNCHANGED <<pc, sleep_req>>

\* a clear that paints the cells and forgets the colour
TR_ClearBackground_NoStore(color) ==
    /\ CanCall
    /\ op' = "TR_ClearBackground"
    /\ ret' = "void"
    /\ out' = <<>>
    /\ UNCHANGED <<key_was, platform, proc, saved, env, pace, ghost, __tr_window_open,
                   __tr_frame_time_us, __tr_key_buffer, __tr_prev_screen_buffer,
                   __tr_buffer_width, __tr_buffer_height, __tr_initial_width,
                   __tr_initial_height, __tr_current_bg_color, __tr_z_buffer,
                   __tr_z_buffer_size>>
    /\ IF ~__tr_window_open
       THEN UNCHANGED __tr_screen_buffer
       ELSE __tr_screen_buffer' =
                Filled(__tr_buffer_width * __tr_buffer_height, Cell(" ", color, color))

TR_ClearBackground(color) ==
    /\ CanCall
    /\ op' = "TR_ClearBackground"
    /\ ret' = "void"
    /\ out' = <<>>
    /\ UNCHANGED <<key_was, platform, proc, saved, env, pace, ghost, __tr_window_open,
                   __tr_frame_time_us, __tr_key_buffer, __tr_prev_screen_buffer,
                   __tr_buffer_width, __tr_buffer_height, __tr_initial_width,
                   __tr_initial_height, __tr_z_buffer, __tr_z_buffer_size>>
    /\ IF ~__tr_window_open
       THEN UNCHANGED <<__tr_current_bg_color, __tr_screen_buffer>>
       ELSE /\ __tr_current_bg_color' = color
            /\ __tr_screen_buffer' =
                   Filled(__tr_buffer_width * __tr_buffer_height, Cell(" ", color, color))

\* the buffer after one in-range cell write
PutCell(buf, width, x, y, cell) == [buf EXCEPT ![y * width + x + 1] = cell]

InRange(x, y) ==
    x >= 0 /\ x < __tr_buffer_width /\ y >= 0 /\ y < __tr_buffer_height

\* what a drawing call leaves unchanged
DrawFrame(name) ==
    /\ CanCall
    /\ op' = name
    /\ ret' = "void"
    /\ out' = <<>>
    /\ UNCHANGED <<key_was, platform, proc, saved, env, pace, ghost, __tr_window_open,
                   __tr_frame_time_us, __tr_key_buffer, __tr_prev_screen_buffer,
                   __tr_buffer_width, __tr_buffer_height, __tr_current_bg_color,
                   __tr_initial_width, __tr_initial_height, __tr_z_buffer,
                   __tr_z_buffer_size>>

TR_DrawPixel(x, y, color) ==
    /\ DrawFrame("TR_DrawPixel")
    /\ IF ~__tr_window_open \/ ~InRange(x, y)
       THEN UNCHANGED __tr_screen_buffer
       ELSE __tr_screen_buffer' =
                PutCell(__tr_screen_buffer, __tr_buffer_width, x, y,
                        Cell(" ", color, color))

\* a background taken as given, sentinel or not
FinalBg_AsGiven(bg_color) == bg_color

\* the background a drawing call uses: BLANK stands for the last clear colour
FinalBg(bg_color) ==
    IF __tr_colors_equal(bg_color, BLANK) THEN __tr_current_bg_color ELSE bg_color

\* the loop of TR_DrawText from character i (0-based) on
RECURSIVE DrawTextFrom(_, _, _, _, _, _, _)
DrawTextFrom(buf, text, i, x, y, fg_color, final_bg_color) ==
    IF i >= Len(text) THEN buf
    ELSE DrawTextFrom(
             IF x + i >= 0 /\ x + i < __tr_buffer_width
             THEN PutCell(buf, __tr_buffer_width, x + i, y,
                          Cell(text[i + 1], fg_color, final_bg_color))
             ELSE buf,
             text, i + 1, x, y, fg_color, final_bg_color)

\* fontSize is ignored
TR_DrawText(text, x, y, fontSize, fg_color, bg_color) ==
    /\ DrawFrame("TR_DrawText")
    /\ IF ~__tr_window_open \/ y < 0 \/ y >= __tr_buffer_height
       THEN UNCHANGED __tr_screen_buffer
       ELSE __tr_screen_buffer' =
                DrawTextFrom(__tr_screen_buffer, text, 0, x, y, fg_color,
                             FinalBg(bg_color))

\* a bounds test that forgets the left edge
CellInBuffer_NoLeft(cx, cy) ==
    cx < __tr_buffer_width /\ cy >= 0 /\ cy < __tr_buffer_height

\* is (cx, cy) a cell of the buffer: the test every loop body makes before it writes
CellInBuffer(cx, cy) ==
    cx >= 0 /\ cx < __tr_buffer_width /\ cy >= 0 /\ cy < __tr_buffer_height

\* a rectangle fill that paints both colours of a cell with the background
RECURSIVE DrawRectangleFrom_OneColor(_, _, _, _, _, _, _, _)
DrawRectangleFrom_OneColor(buf, k, x, y, width, height, fg_color, final_bg_color) ==
    IF width <= 0 \/ k >= width * height THEN buf
    ELSE LET current_x == x + (k % width)
             current_y == y + (k \div width)
         IN  DrawRectangleFrom_OneColor(
                 IF CellInBuffer(current_x, current_y)
                 THEN PutCell(buf, __tr_buffer_width, current_x, current_y,
                              Cell(" ", final_bg_color, final_bg_color))
                 ELSE buf,
                 k + 1, x, y, width, height, fg_color, final_bg_color)

\* the nested loops of TR_DrawRectangle from step k on, k = j * width + i
RECURSIVE DrawRectangleFrom(_, _, _, _, _, _, _, _)
DrawRectangleFrom(buf, k, x, y, width, height, fg_color, final_bg_color) ==
    IF width <= 0 \/ k >= width * height THEN buf
    ELSE LET current_x == x + (k % width)
             current_y == y + (k \div width)
         IN  DrawRectangleFrom(
                 IF CellInBuffer(current_x, current_y)
                 THEN PutCell(buf, __tr_buffer_width, current_x, current_y,
                              Cell(" ", fg_color, final_bg_color))
                 ELSE buf,
                 k + 1, x, y, width, height, fg_color, final_bg_color)

TR_DrawRectangle(x, y, width, height, fg_color, bg_color) ==
    /\ DrawFrame("TR_DrawRectangle")
    /\ IF ~__tr_window_open
       THEN UNCHANGED __tr_screen_buffer
       ELSE __tr_screen_buffer' =
                DrawRectangleFrom(__tr_screen_buffer, 0, x, y, width, height, fg_color,
                                  FinalBg(bg_color))

\* one guarded write of a border cell
PutBorder(buf, cx, cy, fg_color, final_bg_color) ==
    IF CellInBuffer(cx, cy)
    THEN PutCell(buf, __tr_buffer_width, cx, cy, Cell("#", fg_color, final_bg_color))
    ELSE buf

\* the first loop of TR_DrawRectangleLines from i on: top and bottom lines
RECURSIVE DrawTopBottomFrom(_, _, _, _, _, _, _, _)
DrawTopBottomFrom(buf, i, x, y, width, height, fg_color, final_bg_color) ==
    IF i >= width THEN buf
    ELSE DrawTopBottomFrom(
             PutBorder(PutBorder(buf, x + i, y, fg_color, final_bg_color),
                       x + i, y + height - 1, fg_color, final_bg_color),
             i + 1, x, y, width, height, fg_color, final_bg_color)

\* a border without its left and right lines
DrawLeftRightFrom_None(buf, j, x, y, width, height, fg_color, final_bg_color) == buf

\* the second loop from j on: left and right lines between the corners
RECURSIVE DrawLeftRightFrom(_, _, _, _, _, _, _, _)
DrawLeftRightFrom(buf, j, x, y, width, height, fg_color, final_bg_color) ==
    IF j >= height - 1 THEN buf
    ELSE DrawLeftRightFrom(
             PutBorder(PutBorder(buf, x, y + j, fg_color, final_bg_color),
                       x + width - 1, y + j, fg_color, final_bg_color),
             j + 1, x, y, width, height, fg_color, final_bg_color)

TR_DrawRectangleLines(x, y, width, height, fg_color, bg_color) ==
    /\ DrawFrame("TR_DrawRectangleLines")
    /\ IF ~__tr_window_open
       THEN UNCHANGED __tr_screen_buffer
       ELSE __tr_screen_buffer' =
                DrawLeftRightFrom(
                    DrawTopBottomFrom(__tr_screen_buffer, 0, x, y, width, height,
                                      fg_color, FinalBg(bg_color)),
                    1, x, y, width, height, fg_color, FinalBg(bg_color))

\* a take that returns the slot and leaves it as it is
TR_GetKeyPressed_NoClear ==
    /\ CanCall
    /\ op' = "TR_GetKeyPressed"
    /\ ret' = __tr_key_buffer
    /\ out' = <<>>
    /\ key_was' = __tr_key_buffer
    /\ UNCHANGED <<platform, proc, saved, env, pace, ghost, engine>>

TR_GetKeyPressed ==
    /\ CanCall
    /\ op' = "TR_GetKeyPressed"
    /\ ret' = __tr_key_buffer
    /\ out' = <<>>
    /\ __tr_key_buffer' = 0
    /\ key_was' = __tr_key_buffer
    /\ UNCHANGED <<platform, proc, saved, env, pace, ghost, __tr_window_open,
                   __tr_frame_time_us, __tr_screen_buffer, __tr_prev_screen_buffer,
                   __tr_buffer_width, __tr_buffer_height, __tr_current_bg_color,
                   __tr_initial_width, __tr_initial_height, __tr_z_buffer,
                   __tr_z_buffer_size>>

----------------------------------------------------------------------------
\* The 3D primitives (#ifdef TR_3D).  A float is the exact fraction
\* <<numerator, denominator>>, in lowest terms with a positive denominator; the
\* runs keep to values whose sums, products and quotients a float holds exactly.

Abs(a) == IF a < 0 THEN -a ELSE a

\* F of the value of v: v is worked out once, however often F uses it
Once(v, F(_)) == CHOOSE r \in {F(x) : x \in {v}} : TRUE

RECURSIVE Gcd(_, _)
Gcd(a, b) == IF b = 0 THEN a ELSE Gcd(b, a % b)

\* the float n / d
Frac(n, d) ==
    LET g == Gcd(Abs(n), Abs(d))
    IN  IF d < 0 THEN <<(-n) \div g, (-d) \div g>> ELSE <<n \div g, d \div g>>

\* (float)i
FloatOf(i) == <<i, 1>>

FloatAdd(a, b) == Frac(a[1] * b[2] + b[1] * a[2], a[2] * b[2])
FloatSub(a, b) == Frac(a[1] * b[2] - b[1] * a[2], a[2] * b[2])
FloatMul(a, b) == Frac(a[1] * b[1], a[2] * b[2])
\* a / b for b other than 0
FloatDiv(a, b) == Frac(a[1] * b[2], a[2] * b[1])
\* a < b
FloatLess(a, b) == a[1] * b[2] < b[1] * a[2]

\* (int)a: the fraction is cut off, towards zero
IntOf(a) == IF a[1] >= 0 THEN a[1] \div a[2] ELSE -((-a[1]) \div a[2])

\* the far value of the depth buffer: 1.0f
FAR == FloatOf(1)

TR_Vector3(x, y, z) == [x |-> x, y |-> y, z |-> z]

\* mat.m[i][j] is mat[i + 1][j + 1]
TR_MatrixIdentity ==
    << <<FloatOf(1), FloatOf(0), FloatOf(0), FloatOf(0)>>,
       <<FloatOf(0), FloatOf(1), FloatOf(0), FloatOf(0)>>,
       <<FloatOf(0), FloatOf(0), FloatOf(1), FloatOf(0)>>,
       <<FloatOf(0), FloatOf(0), FloatOf(0), FloatOf(1)>> >>

TR_MatrixScale(x, y, z) ==
    [TR_MatrixIdentity EXCEPT ![1][1] = x, ![2][2] = y, ![3][3] = z]

\* v * mat with w = 1, then the perspective divide unless w is 0
TR_Vector3Transform(v, mat) ==
    LET Row(j) == FloatAdd(FloatAdd(FloatMul(v.x, mat[1][j]), FloatMul(v.y, mat[2][j])),
                           FloatAdd(FloatMul(v.z, mat[3][j]), mat[4][j]))
    IN  Once(Row(4),
             LAMBDA w :
                IF w # FloatOf(0)
                THEN TR_Vector3(FloatDiv(Row(1), w), FloatDiv(Row(2), w),
                                FloatDiv(Row(3), w))
                ELSE TR_Vector3(Row(1), Row(2), Row(3)))

\* from normalized device coordinates to screen coordinates, y pointing down
__tr_project_vertex(vertex, mvp_matrix) ==
    Once(TR_Vector3Transform(vertex, mvp_matrix),
         LAMBDA transformed_v :
            TR_Vector3(
                FloatMul(FloatMul(FloatAdd(transformed_v.x, FloatOf(1)), Frac(1, 2)),
                         FloatOf(__tr_buffer_width)),
                FloatMul(FloatMul(FloatSub(FloatOf(1), transformed_v.y), Frac(1, 2)),
                         FloatOf(__tr_buffer_height)),
                transformed_v.z))

\* if (p[i].y > p[j].y) swap
SwapIfBelow(p, i, j) ==
    IF FloatLess(p[j].y, p[i].y) THEN [p EXCEPT ![i] = p[j], ![j] = p[i]] ELSE p

\* the three swaps that sort the projected vertices top to bottom
SortByY(p) ==
    Once(p, LAMBDA p0 :
       Once(SwapIfBelow(p0, 1, 2), LAMBDA p1 :
          Once(SwapIfBelow(p1, 1, 3), LAMBDA p2 : SwapIfBelow(p2, 2, 3))))

\* the edge loop of scanline y from edge i (0, 1, 2) on; acc holds x_left,
\* x_right, z_left and z_right so far
RECURSIVE ScanEdges(_, _, _, _)
ScanEdges(p, y, i, acc) ==
    IF i >= 3 THEN acc
    ELSE LET p_curr == p[i + 1]
             p_next == p[((i + 1) % 3) + 1]
         IN  IF /\ \/ (y >= IntOf(p_curr.y) /\ y < IntOf(p_next.y))
                   \/ (y >= IntOf(p_next.y) /\ y < IntOf(p_curr.y))
                /\ p_curr.y # p_next.y
             THEN LET t == FloatDiv(FloatSub(FloatOf(y), p_curr.y),
                                    FloatSub(p_next.y, p_curr.y))
                      intersect_x ==
                          FloatAdd(p_curr.x, FloatMul(t, FloatSub(p_next.x, p_curr.x)))
                      intersect_z ==
                          FloatAdd(p_curr.z, FloatMul(t, FloatSub(p_next.z, p_curr.z)))
                      lo == IF FloatLess(intersect_x, acc.x_left)
                            THEN [acc EXCEPT !.x_left = intersect_x,
                                             !.z_left = intersect_z]
                            ELSE acc
                      hi == IF FloatLess(lo.x_right, intersect_x)
                            THEN [lo EXCEPT !.x_right = intersect_x,
                                            !.z_right = intersect_z]
                            ELSE lo
                  IN  Once(hi, LAMBDA next : ScanEdges(p, y, i + 1, next))
             ELSE ScanEdges(p, y, i + 1, acc)

\* the span of scanline y: the clamped columns and the depths at its two ends
Scanline(p, y) ==
    Once(ScanEdges(p, y, 0,
                   [x_left |-> FloatOf(__tr_buffer_width), x_right |-> FloatOf(0),
                    z_left |-> FloatOf(1), z_right |-> FloatOf(0)]),
         LAMBDA acc :
            [x_start |-> IF IntOf(acc.x_left) < 0 THEN 0 ELSE IntOf(acc.x_left),
             x_end |-> IF IntOf(acc.x_right) >= __tr_buffer_width
                       THEN __tr_buffer_width - 1 ELSE IntOf(acc.x_right),
             z_left |-> acc.z_left, z_right |-> acc.z_right])

\* the depth interpolated for column x of a scanline with that span
PixelZ(span, x) ==
    IF span.x_end # span.x_start
    THEN FloatAdd(span.z_left,
                  FloatMul(Frac(x - span.x_start, span.x_end - span.x_start),
                           FloatSub(span.z_right, span.z_left)))
    ELSE span.z_left

\* the projected vertices of a triangle, sorted top to bottom
SortedProjection(v1, v2, v3, mvp_matrix) ==
    SortByY(<<__tr_project_vertex(v1, mvp_matrix), __tr_project_vertex(v2, mvp_matrix),
              __tr_project_vertex(v3, mvp_matrix)>>)

\* the scanlines of the fill, clamped to the buffer, each with its span
Spans(p) ==
    LET y_start == IF IntOf(p[1].y) < 0 THEN 0 ELSE IntOf(p[1].y)
        y_end == IF IntOf(p[3].y) >= __tr_buffer_height
                 THEN __tr_buffer_height - 1 ELSE IntOf(p[3].y)
    IN  [y \in y_start..y_end |-> Scanline(p, y)]

\* the depth the fill interpolates at each index of the depth buffer that its
\* two loops reach and test
PixelDepths(spans) ==
    LET reached == UNION {{<<x, y>> : x \in spans[y].x_start..spans[y].x_end} :
                             y \in DOMAIN spans}
        inside == {c \in reached : c[2] * __tr_buffer_width + c[1] < __tr_z_buffer_size}
    IN  [index \in {c[2] * __tr_buffer_width + c[1] : c \in inside} |->
            PixelZ(spans[index \div __tr_buffer_width], index % __tr_buffer_width)]

\* what the depth test reads from an entry: g where nobody has written it
ReadDepth(entry, g) == IF entry = Uninit THEN g ELSE entry

\* a depth test that lets the later triangle win
DepthTest_Always(pixel_z, entry, g) == TRUE

\* if (pixel_z < __tr_z_buffer[index]): smaller z means closer
DepthTest(pixel_z, entry, g) == FloatLess(pixel_z, ReadDepth(entry, g))

\* a fill that resets the depth buffer to far before its first scanline
FillPixels_ResetFirst(zbuf, screen, pixel_z, color, g) ==
    LET written == {index \in DOMAIN pixel_z : FloatLess(pixel_z[index], FAR)}
    IN  [z |-> [i \in 1..Len(zbuf) |-> IF (i - 1) \in written THEN pixel_z[i - 1] ELSE FAR],
         screen |-> IF __tr_window_open
                    THEN [i \in 1..Len(screen) |->
                             IF (i - 1) \in written THEN Cell(" ", color, color)
                             ELSE screen[i]]
                    ELSE screen,
         written |-> written]

\* the two loops of TR_DrawTriangle3DFilled on a depth buffer that is
\* allocated: the buffers after the fill, and the indexes it wrote
FillPixels(zbuf, screen, pixel_z, color, g) ==
    LET written == {index \in DOMAIN pixel_z :
                       DepthTest(pixel_z[index], zbuf[index + 1], g)}
    IN  [z |-> [i \in 1..Len(zbuf) |->
                   IF (i - 1) \in written THEN pixel_z[i - 1] ELSE zbuf[i]],
         \* TR_DrawPixel(x, y, color)
         screen |-> IF __tr_window_open
                    THEN [i \in 1..Len(screen) |->
                             IF (i - 1) \in written THEN Cell(" ", color, color)
                             ELSE screen[i]]
                    ELSE screen,
         written |-> written]

\* the depths a triangle's fill interpolates, by index of the depth buffer
TriangleDepths(v1, v2, v3, mvp_matrix) ==
    Once(SortedProjection(v1, v2, v3, mvp_matrix),
         LAMBDA p : Once(Spans(p), LAMBDA spans : PixelDepths(spans)))

FillTriangle(zbuf, screen, v1, v2, v3, mvp_matrix, color, g) ==
    Once(TriangleDepths(v1, v2, v3, mvp_matrix),
         LAMBDA pixel_z : FillPixels(zbuf, screen, pixel_z, color, g))

\* what a 3D drawing call leaves unchanged
Draw3DFrame(name) ==
    /\ op' = name
    /\ ret' = "void"
    /\ out' = <<>>
    /\ UNCHANGED <<key_was, platform, saved, env, pace, pre_open_mode, pre_open_sigint,
                   frame_diff, call_args, __tr_window_open, __tr_frame_time_us,
                   __tr_key_buffer, __tr_prev_screen_buffer, __tr_buffer_width,
                   __tr_buffer_height, __tr_current_bg_color, __tr_initial_width,
                   __tr_initial_height, __tr_z_buffer_size>>

\* the process dies of a read or write through the null __tr_z_buffer
NullDepthBuffer ==
    /\ proc' = "segfault"
    /\ UNCHANGED <<__tr_screen_buffer, __tr_z_buffer, depth_fresh>>

\* mvp_matrix takes a vertex to normalized device coordinates; g is what an
\* entry of the depth buffer that nobody has written reads as
TR_DrawTriangle3DFilled(v1, v2, v3, mvp_matrix, color, g) ==
    /\ CanCall
    /\ \E pixel_z \in {TriangleDepths(v1, v2, v3, mvp_matrix)} :
          IF DOMAIN pixel_z = {}
          THEN UNCHANGED <<proc, __tr_screen_buffer, __tr_z_buffer, depth_fresh>>
          ELSE IF __tr_z_buffer = NULL
          THEN NullDepthBuffer
          ELSE \E r \in {FillPixels(__tr_z_buffer, __tr_screen_buffer, pixel_z, color, g)} :
                  /\ __tr_z_buffer' = r.z
                  /\ __tr_screen_buffer' = r.screen
                  /\ depth_fresh' = depth_fresh \cup r.written
                  /\ UNCHANGED proc
    /\ Draw3DFrame("TR_DrawTriangle3DFilled")

\* the unit cube centred at the origin
__tr_cube_vertices ==
    << TR_Vector3(Frac(-1, 2), Frac(-1, 2), Frac(-1, 2)),
       TR_Vector3(Frac(1, 2), Frac(-1, 2), Frac(-1, 2)),
       TR_Vector3(Frac(1, 2), Frac(1, 2), Frac(-1, 2)),
       TR_Vector3(Frac(-1, 2), Frac(1, 2), Frac(-1, 2)),
       TR_Vector3(Frac(-1, 2), Frac(-1, 2), Frac(1, 2)),
       TR_Vector3(Frac(1, 2), Frac(-1, 2), Frac(1, 2)),
       TR_Vector3(Frac(1, 2), Frac(1, 2), Frac(1, 2)),
       TR_Vector3(Frac(-1, 2), Frac(1, 2), Frac(1, 2)) >>

\* its faces, two triangles each, as 0-based indexes into __tr_cube_vertices
__tr_cube_faces ==
    << <<0, 1, 2>>, <<0, 2, 3>>, <<4, 6, 5>>, <<4, 7, 6>>, <<1, 5, 6>>, <<1, 6, 2>>,
       <<4, 0, 3>>, <<4, 3, 7>>, <<3, 2, 6>>, <<3, 6, 7>>, <<0, 4, 5>>, <<0, 5, 1>> >>

__tr_num_cube_faces == Len(__tr_cube_faces)

\* triangle i (0-based) of the cube
CubeFace(i) ==
    <<__tr_cube_vertices[__tr_cube_faces[i + 1][1] + 1],
      __tr_cube_vertices[__tr_cube_faces[i + 1][2] + 1],
      __tr_cube_vertices[__tr_cube_faces[i + 1][3] + 1]>>

\* the face loop of TR_DrawCubeFilled3D from face i on; bufs holds the depth
\* buffer z and the screen buffer, which a triangle that passes no depth test
\* leaves as they are
RECURSIVE CubeFacesFrom(_, _, _, _)
CubeFacesFrom(bufs, i, mvp_matrix, color) ==
    IF i >= __tr_num_cube_faces THEN bufs
    ELSE Once(FillTriangle(bufs.z, bufs.screen, CubeFace(i)[1], CubeFace(i)[2],
                           CubeFace(i)[3], mvp_matrix, color, FAR),
              LAMBDA r :
                 IF r.written = {}
                 THEN CubeFacesFrom(bufs, i + 1, mvp_matrix, color)
                 ELSE CubeFacesFrom(r, i + 1, mvp_matrix, color))

\* mvp_matrix is the matrix the call composes from position, size and
\* rotation_radians, the fixed camera and the perspective projection
TR_DrawCubeFilled3D(mvp_matrix, color) ==
    /\ CanCall
    /\ IF __tr_z_buffer_size > 0 /\ __tr_z_buffer = NULL
       THEN NullDepthBuffer
       ELSE \E r \in {CubeFacesFrom([z |-> Filled(__tr_z_buffer_size, FAR),
                                      screen |-> __tr_screen_buffer], 0, mvp_matrix,
                                     color)} :
               /\ __tr_z_buffer' = r.z
               /\ __tr_screen_buffer' = r.screen
               /\ depth_fresh' = {i \in 0..(__tr_z_buffer_size - 1) : r.z[i + 1] # FAR}
               /\ UNCHANGED proc
    /\ Draw3DFrame("TR_DrawCubeFilled3D")

\* the width of an int, scaled down: every sum of the line routine is taken
\* modulo 2^IntBits as the machine takes it modulo 2^32
IntBits == 3

INT_MIN == -(2 ^ (IntBits - 1))

INT_MAX == 2 ^ (IntBits - 1) - 1

\* is v a value of an int
IntFits(v) == v >= INT_MIN /\ v <= INT_MAX

\* the int a sum that left the range wraps to
Wrap(v) == ((v - INT_MIN) % (2 ^ IntBits)) + INT_MIN

\* abs of stdlib.h on an int: abs(INT_MIN) wraps to INT_MIN
abs(v) == IF v < 0 THEN Wrap(-v) ELSE v

\* TR_DrawPixel on a buffer: cells outside the buffer are left alone
PlotPixel(buf, x, y, color) ==
    IF ~__tr_window_open \/ ~InRange(x, y) THEN buf
    ELSE PutCell(buf, __tr_buffer_width, x, y, Cell(" ", color, color))

\* the pixels of a line, plotted in order
RECURSIVE PlotPoints(_, _, _, _)
PlotPoints(buf, points, i, color) ==
    IF i > Len(points) THEN buf
    ELSE PlotPoints(PlotPixel(buf, points[i][1], points[i][2], color), points, i + 1,
                    color)

\* the locals of the line routine before its loop; overflow: a difference left
\* the range of int
LineSetup(x1, y1, x2, y2) ==
    LET dx == abs(Wrap(x2 - x1))
        dy == abs(Wrap(y2 - y1))
    IN  [x2 |-> x2, y2 |-> y2, dx |-> dx, dy |-> dy,
         sx |-> IF x1 < x2 THEN 1 ELSE -1,
         sy |-> IF y1 < y2 THEN 1 ELSE -1,
         err |-> Wrap(dx - dy),
         overflow |-> \/ ~IntFits(x2 - x1) \/ dx = INT_MIN
                      \/ ~IntFits(y2 - y1) \/ dy = INT_MIN
                      \/ ~IntFits(dx - dy)]

\* the loop of the line routine from (x1, y1): the points plotted so far and
\* whether the loop left; no line between two points of int range has more
\* than 2^IntBits points, and the loop is followed no further than that
RECURSIVE LineLoop(_, _, _, _, _, _)
LineLoop(l, x1, y1, err, points, overflow) ==
    LET plotted == Append(points, <<x1, y1>>)
    IN  IF x1 = l.x2 /\ y1 = l.y2
        THEN [points |-> plotted, ended |-> TRUE, overflow |-> overflow]
        ELSE IF Len(plotted) > 2 ^ IntBits
        THEN [points |-> plotted, ended |-> FALSE, overflow |-> overflow]
        ELSE LET e2 == Wrap(2 * err)
                 step_x == e2 > Wrap(-l.dy)
                 err_x == IF step_x THEN Wrap(err - l.dy) ELSE err
                 step_y == e2 < l.dx
                 err_y == IF step_y THEN Wrap(err_x + l.dx) ELSE err_x
                 left_range ==
                     \/ ~IntFits(2 * err)
                     \/ step_x /\ (~IntFits(err - l.dy) \/ ~IntFits(x1 + l.sx))
                     \/ step_y /\ (~IntFits(err_x + l.dx) \/ ~IntFits(y1 + l.sy))
             IN  LineLoop(l, IF step_x THEN Wrap(x1 + l.sx) ELSE x1,
                          IF step_y THEN Wrap(y1 + l.sy) ELSE y1, err_y, plotted,
                          overflow \/ left_range)

\* what a call of the line routine plots
LinePoints(x1, y1, x2, y2) ==
    LET l == LineSetup(x1, y1, x2, y2)
    IN  LineLoop(l, x1, y1, l.err, <<>>, l.overflow)

\* signed overflow is undefined: the build wraps the sum (ub = "wrap") or traps
\* on it (ub = "trap"); a loop that has not left after 2^IntBits points is
\* still running when the model stops following it
__tr_draw_line_2d(x1, y1, x2, y2, color, ub) ==
    /\ CanCall
    /\ LET r == LinePoints(x1, y1, x2, y2)
       IN  IF r.overflow /\ ub = "trap"
           THEN proc' = "trapped" /\ UNCHANGED __tr_screen_buffer
           ELSE /\ __tr_screen_buffer' = PlotPoints(__tr_screen_buffer, r.points, 1, color)
                /\ proc' = IF r.ended THEN proc ELSE "in_line_loop"
    /\ UNCHANGED <<__tr_z_buffer, depth_fresh>>
    /\ Draw3DFrame("__tr_draw_line_2d")

----------------------------------------------------------------------------
\* The environment: the user, the terminal, the clock

\* a key's bytes arrive on stdin
TypeKey(bytes) ==
    /\ proc = "running"
    /\ Len(stdin_pending) < MaxWaiting
    /\ stdin_pending' = stdin_pending \o bytes
    /\ UNCHANGED <<key_was, platform, proc, engine, saved, term_size, tty_mode, sigint_chain,
                   display, pace, trace, ghost>>

\* the terminal is resized (<<0, 0>>: the size query fails)
Resize(size) ==
    /\ proc = "running"
    /\ size # term_size
    /\ term_size' = size
    /\ display' = Resized(display, platform, term_size, size)
    /\ UNCHANGED <<key_was, platform, proc, engine, saved, tty_mode, stdin_pending,
                   sigint_chain, pace, trace, ghost>>

\* the clock advances while the thread runs
Tick(d) ==
    /\ proc = "running"
    /\ pc = "run"
    /\ elapsed_ns + d <= ElapsedCap
    /\ elapsed_ns' = elapsed_ns + d
    /\ UNCHANGED <<key_was, platform, proc, engine, saved, env, pc, sleep_req, trace, ghost>>

\* the pacing sleep runs to its end: nanosleep returns 0, Sleep returns
SleepReturns ==
    /\ proc = "running"
    /\ pc = "sleep"
    /\ pc' = "run"
    /\ elapsed_ns' = elapsed_ns + sleep_req
    /\ sleep_req' = 0
    /\ UNCHANGED <<key_was, platform, proc, engine, saved, env, trace, ghost>>

\* SIGINT / Ctrl-C is delivered, d ns into the pacing sleep when the thread sleeps
SigInt(d) ==
    /\ proc = "running"
    /\ op' = "SIGINT"
    /\ UNCHANGED <<key_was, platform, engine, saved, env, ghost, ret, out>>
    /\ IF Head(sigint_chain) = "SIG_DFL"
       THEN /\ proc' = "killed_sigint"
            /\ UNCHANGED pace
       ELSE /\ UNCHANGED proc
            /\ IF pc = "sleep" /\ platform = "posix"
                    /\ Head(sigint_chain) = "__tr_sigint_handler" /\ d < sleep_req
               \* nanosleep returns -1 with EINTR and the time left in rem: req = rem
               THEN /\ elapsed_ns' = elapsed_ns + d
                    /\ sleep_req' = sleep_req - d
                    /\ UNCHANGED pc
               ELSE UNCHANGED pace

----------------------------------------------------------------------------
\* Initial states and specifications

\* the process before its first call
InitEngine ==
    /\ platform \in {"posix", "win"}
    /\ proc = "running"
    /\ __tr_window_open = FALSE
    /\ __tr_frame_time_us = 0
    /\ __tr_key_buffer = 0
    /\ __tr_screen_buffer = NULL
    /\ __tr_prev_screen_buffer = NULL
    /\ __tr_buffer_width = 0
    /\ __tr_buffer_height = 0
    /\ __tr_current_bg_color = <<0, 0, 0, 255>>
    /\ __tr_initial_width = 0
    /\ __tr_initial_height = 0
    /\ __tr_original_termios = ZeroTermios
    /\ __tr_original_in_mode = ZeroConsoleMode
    /\ __tr_original_sigint_action = "SIG_DFL"
    /\ term_size \in TermSizes
    /\ tty_mode \in StartModes(platform)
    /\ stdin_pending = <<>>
    /\ sigint_chain \in {<<"SIG_DFL">>, <<"SIG_IGN">>}
    /\ elapsed_ns = ElapsedCap
    /\ pc = "run"
    /\ sleep_req = 0
    /\ op = "none"
    /\ ret = "void"
    /\ out = <<>>
    /\ pre_open_mode = tty_mode
    /\ pre_open_sigint = sigint_chain
    /\ key_was = 0
    /\ frame_diff = 0
    /\ __tr_z_buffer = NULL
    /\ __tr_z_buffer_size = 0
    /\ display = Filled(term_size[1] * term_size[2], StaleCell(platform))
    /\ depth_fresh = {}

Init == InitEngine /\ call_args = <<>>

\* the keys typed in a session: 'q' and 'a'
SessionKeys == {<<113>>, <<97>>}

Next ==
    \/ \E malloc_ok \in BOOLEAN : TR_InitWindow(MAP_WIDTH, MAP_HEIGHT + 3, malloc_ok)
    \/ TR_CloseWindow
    \/ \E g \in GarbageBufs : TR_BeginDrawing(g)
    \/ TR_GetKeyPressed
    \/ \E k \in SessionKeys : TypeKey(k)
    \/ \E size \in TermSizes : Resize(size)

\* a session from a cooked terminal under the default interrupt disposition
InitSession ==
    /\ Init
    /\ sigint_chain = <<"SIG_DFL">>
    /\ tty_mode = CookedMode(platform)

Spec == InitSession /\ [][Next]_vars

\* frames that draw and flush while keys arrive and the terminal is resized
NextResize ==
    \/ TR_InitWindow(MAP_WIDTH, MAP_HEIGHT + 3, TRUE)
    \/ TR_CloseWindow
    \/ \E g \in GarbageBufs : TR_BeginDrawing(g)
    \/ TR_EndDrawing
    \/ TR_DrawPixel(0, 0, RED)
    \/ TypeKey(<<113>>)
    \/ \E size \in TermSizes : Resize(size)

SpecResize == InitSession /\ [][NextResize]_vars

\* frame rates of the lifecycle runs: pacing off, and a 1 ms frame
LifeRates == {0, 1000}

\* the clock moves in ticks of half the 1 ms frame period (ns)
TickNs == ((1000000 \div 1000) * 1000) \div 2

\* how far into the pacing sleep an interrupt arrives (ns)
SigDelays == {0, TickNs}

SigIntStep == \E d \in SigDelays : SigInt(d)

\* open, frames with pacing, close, again and again, with interrupts at any point
NextLife ==
    \/ \E malloc_ok \in BOOLEAN : TR_InitWindow(MAP_WIDTH, MAP_HEIGHT + 3, malloc_ok)
    \/ TR_CloseWindow
    \/ \E g \in GarbageBufs : TR_BeginDrawing(g)
    \/ TR_EndDrawing
    \/ \E fps \in LifeRates : TR_SetTargetFPS(fps)
    \/ Tick(TickNs)
    \/ SleepReturns
    \/ SigIntStep

SpecLife == Init /\ [][NextLife]_vars

\* what a POSIX terminal sends for the special keys, with the code of each
PosixKeyTable ==
    { <<<<27, 91, 65>>, TR_KEY_UP>>,    <<<<27, 91, 66>>, TR_KEY_DOWN>>,
      <<<<27, 91, 67>>, TR_KEY_RIGHT>>, <<<<27, 91, 68>>, TR_KEY_LEFT>>,
      <<<<27, 79, 80>>, TR_KEY_F1>>,    <<<<27, 79, 81>>, TR_KEY_F2>>,
      <<<<27, 79, 82>>, TR_KEY_F3>>,    <<<<27, 79, 83>>, TR_KEY_F4>>,
      <<<<27, 91, 49, 53, 126>>, TR_KEY_F5>>,
      <<<<27, 91, 49, 55, 126>>, TR_KEY_F6>>,
      <<<<27, 91, 49, 56, 126>>, TR_KEY_F7>>,
      <<<<27, 91, 49, 57, 126>>, TR_KEY_F8>>,
      <<<<27, 91, 50, 48, 126>>, TR_KEY_F9>>,
      <<<<27, 91, 50, 49, 126>>, TR_KEY_F10>>,
      <<<<27, 91, 50, 51, 126>>, TR_KEY_F11>>,
      <<<<27, 91, 50, 52, 126>>, TR_KEY_F12>> }

\* what _getch delivers for some of them on Windows
WinKeys == {<<224, 72>>, <<224, 80>>, <<0, 59>>, <<0, 63>>, <<0, 86>>}

\* the input of the keyboard runs: Escape alone, the special keys of the
\* platform and, on POSIX, the first four bytes of the F5 sequence
SpecialKeys(p) ==
    {<<27>>} \cup
    (IF p = "win" THEN WinKeys
     ELSE {e[1] : e \in PosixKeyTable} \cup {<<27, 91, 49, 53>>})

NextKeys ==
    \/ TR_InitWindow(MAP_WIDTH, MAP_HEIGHT + 3, TRUE)
    \/ \E g \in GarbageBufs : TR_BeginDrawing(g)
    \/ TR_GetKeyPressed
    \/ \E k \in SpecialKeys(platform) : TypeKey(k)

SpecKeys == InitSession /\ [][NextKeys]_vars

\* the colours the drawing runs clear and paint with
ClearColors == {BLACK_A0, RED}

\* the two cells the drawing runs paint: the first and the last of the screen
PaintedCells == {<<0, 0>>, <<MaxCols - 1, 1>>}

\* frames drawn on a terminal of MaxCols columns by 2 rows
NextFlush ==
    \/ TR_InitWindow(MAP_WIDTH, MAP_HEIGHT + 3, TRUE)
    \/ \E g \in GarbageBufs : TR_BeginDrawing(g)
    \/ TR_EndDrawing
    \/ \E c \in ClearColors : TR_ClearBackground(c)
    \/ \E xy \in PaintedCells, c \in ClearColors : TR_DrawPixel(xy[1], xy[2], c)
    \/ TR_DrawText(<<"a", "b">>, MaxCols - 1, 0, 10, WHITE, BLANK)

InitFlush == InitSession /\ term_size = <<MaxCols, 2>>

SpecFlush == InitFlush /\ [][NextFlush]_vars

\* the arguments of the drawing runs: a corner left of, on or right of the
\* columns and above, on or below the rows, a size that may be empty or
\* negative, and a background that may be the BLANK sentinel
DrawArgs ==
    [x : (-1)..MaxCols, y : (-1)..2, width : {-1, 0, 1, 3}, height : (-1)..3,
     fg_color : {WHITE}, bg_color : {BLANK, <<1, 0, 0, 255>>, RED}]

PixelStep == TR_DrawPixel(call_args.x, call_args.y, call_args.fg_color)

TextStep ==
    TR_DrawText(<<"a", "b">>, call_args.x, call_args.y, 10, call_args.fg_color,
                call_args.bg_color)

RectangleStep ==
    TR_DrawRectangle(call_args.x, call_args.y, call_args.width, call_args.height,
                     call_args.fg_color, call_args.bg_color)

RectangleLinesStep ==
    TR_DrawRectangleLines(call_args.x, call_args.y, call_args.width, call_args.height,
                          call_args.fg_color, call_args.bg_color)

\* the four drawing calls of a run, made with the run's arguments in any order,
\* over a background that may have been cleared to red
NextDraw ==
    \/ TR_InitWindow(MAP_WIDTH, MAP_HEIGHT + 3, TRUE)
    \/ TR_ClearBackground(RED)
    \/ PixelStep
    \/ TextStep
    \/ RectangleStep
    \/ RectangleLinesStep

\* a POSIX run on a terminal of MaxCols columns by 2 rows, its arguments drawn
\* from DrawArgs
InitDraw ==
    /\ InitEngine
    /\ platform = "posix"
    /\ term_size = <<MaxCols, 2>>
    /\ tty_mode = CookedMode(platform)
    /\ sigint_chain = <<"SIG_DFL">>
    /\ call_args \in DrawArgs

SpecDraw == InitDraw /\ [][NextDraw]_vars

ClearStep == \E c \in ClearColors : TR_ClearBackground(c)

\* sessions of frames: clear, draw a cell, flush, close and open again
NextFrame ==
    \/ TR_InitWindow(MAP_WIDTH, MAP_HEIGHT + 3, TRUE)
    \/ TR_CloseWindow
    \/ \E g \in GarbageBufs : TR_BeginDrawing(g)
    \/ ClearStep
    \/ TR_DrawPixel(0, 0, RED)
    \/ TR_EndDrawing

SpecFrame == InitFlush /\ [][NextFrame]_vars

\* channel values of the palette runs: the ends, and both sides of the middle
ChannelLevels == {0, 1, 127, 128, 254, 255}

PaletteArgs ==
    [color : ChannelLevels \X ChannelLevels \X ChannelLevels \X {0, 255},
     is_background : BOOLEAN]

\* a call of __tr_map_color_to_terminal with the arguments of the run
MapColorCall ==
    /\ proc = "running"
    /\ op' = "__tr_map_color_to_terminal"
    /\ ret' = __tr_map_color_to_terminal(call_args.color, call_args.is_background)
    /\ UNCHANGED <<platform, proc, engine, saved, env, pace, ghost, key_was, out>>

NextPalette == MapColorCall

InitPalette ==
    /\ InitEngine
    /\ platform = "posix"
    /\ term_size = <<MaxCols, 2>>
    /\ tty_mode = CookedMode(platform)
    /\ sigint_chain = <<"SIG_DFL">>
    /\ call_args \in PaletteArgs

SpecPalette == InitPalette /\ [][NextPalette]_vars

\* frame rates of the pacing runs: negative, zero, low, usual, and around the
\* rate of one frame per microsecond
PaceRates == {-1, 0, 1, 3, 1000, 999999, 1000000, 1000001, 2000000}

SetRateStep == TR_SetTargetFPS(call_args.fps)

\* frames paced at the rate of the run while the clock ticks
NextPace ==
    \/ TR_InitWindow(MAP_WIDTH, MAP_HEIGHT + 3, TRUE)
    \/ SetRateStep
    \/ \E g \in GarbageBufs : TR_BeginDrawing(g)
    \/ TR_EndDrawing
    \/ Tick(TickNs)
    \/ SleepReturns

InitPace ==
    /\ InitEngine
    /\ term_size = <<MaxCols, 2>>
    /\ tty_mode = CookedMode(platform)
    /\ sigint_chain = <<"SIG_DFL">>
    /\ call_args \in [fps : PaceRates]

SpecPace == InitPace /\ [][NextPace]_vars

\* a triangle in normalized device coordinates, all of it at depth z
FlatTriangle(x1, y1, x2, y2, x3, y3, z) ==
    <<TR_Vector3(FloatOf(x1), FloatOf(y1), z), TR_Vector3(FloatOf(x2), FloatOf(y2), z),
      TR_Vector3(FloatOf(x3), FloatOf(y3), z)>>

\* the triangles of the depth runs, in normalized device coordinates: the upper
\* left half of the screen and its lower right half at depth z, the upper left
\* half sloping in depth, a triangle off each side of the screen, and a
\* triangle without height
UpperLeft(z) == FlatTriangle(-1, 1, 1, 1, -1, -1, z)
LowerRight(z) == FlatTriangle(1, 1, 1, -1, -1, -1, z)
Sloping ==
    <<TR_Vector3(FloatOf(-1), FloatOf(1), Frac(1, 4)),
      TR_Vector3(FloatOf(1), FloatOf(1), Frac(3, 4)),
      TR_Vector3(FloatOf(-1), FloatOf(-1), Frac(1, 4))>>
OffLeft == FlatTriangle(-3, 1, -2, 1, -3, -1, Frac(1, 2))
OffRight == FlatTriangle(2, 1, 3, 1, 2, -1, Frac(1, 2))
OffTop == FlatTriangle(-1, 3, 1, 3, -1, 2, Frac(1, 2))
OffBottom == FlatTriangle(-1, -2, 1, -2, -1, -3, Frac(1, 2))
NoHeight == FlatTriangle(-1, 1, 0, 1, 1, 1, Frac(1, 2))

\* the pairs of triangles a and b of the depth runs
DepthPairs ==
    {<<UpperLeft(Frac(1, 4)), UpperLeft(Frac(1, 2))>>,
     <<UpperLeft(FAR), UpperLeft(Frac(1, 2))>>,
     <<UpperLeft(FAR), UpperLeft(Frac(3, 2))>>,
     <<UpperLeft(Frac(1, 2)), UpperLeft(Frac(1, 2))>>,
     <<Sloping, UpperLeft(Frac(1, 2))>>,
     <<LowerRight(Frac(1, 2)), UpperLeft(Frac(1, 4))>>,
     <<LowerRight(Frac(1, 4)), LowerRight(Frac(1, 2))>>,
     <<OffLeft, UpperLeft(Frac(1, 4))>>,
     <<OffRight, LowerRight(Frac(1, 4))>>,
     <<OffTop, UpperLeft(Frac(1, 2))>>,
     <<OffBottom, LowerRight(Frac(1, 2))>>,
     <<NoHeight, UpperLeft(Frac(1, 2))>>}

\* a cube of size 0, which covers no cell
CubeOfNoSize == TR_MatrixScale(FloatOf(0), FloatOf(0), FloatOf(0))

\* a cube that fills the screen, through a matrix whose w is 1/2
CubeOverScreen == [TR_MatrixIdentity EXCEPT ![4][4] = Frac(1, 2)]

\* what an entry of the depth buffer fresh from malloc can read as
GarbageDepths == {FloatOf(0), FloatOf(2)}

\* every pair with the cube of size 0, three with the cube over the screen
DepthArgs ==
    {[a |-> pair[1], b |-> pair[2], mvp_matrix |-> CubeOfNoSize] : pair \in DepthPairs}
      \cup {[a |-> UpperLeft(z), b |-> LowerRight(Frac(-3, 2)),
             mvp_matrix |-> CubeOverScreen] : z \in {Frac(-3, 2), Frac(1, 2), FAR}}

\* triangle a of the run, drawn in red
FillAStep ==
    \E g \in GarbageDepths :
       TR_DrawTriangle3DFilled(call_args.a[1], call_args.a[2], call_args.a[3],
                               TR_MatrixIdentity, RED, g)

\* triangle b of the run, drawn in green
FillBStep ==
    \E g \in GarbageDepths :
       TR_DrawTriangle3DFilled(call_args.b[1], call_args.b[2], call_args.b[3],
                               TR_MatrixIdentity, GREEN, g)

\* the cube of the run, drawn in blue
CubeStep == TR_DrawCubeFilled3D(call_args.mvp_matrix, BLUE)

\* frames that draw the run's two triangles and its cube in any order, before,
\* in and after a session
NextDepth ==
    \/ TR_InitWindow(MAP_WIDTH, MAP_HEIGHT + 3, TRUE)
    \/ TR_CloseWindow
    \/ \E g \in GarbageBufs : TR_BeginDrawing(g)
    \/ FillAStep
    \/ FillBStep
    \/ CubeStep

\* a POSIX run on a terminal of MaxCols columns by 2 rows
InitDepth ==
    /\ InitEngine
    /\ platform = "posix"
    /\ term_size = <<MaxCols, 2>>
    /\ tty_mode = CookedMode(platform)
    /\ sigint_chain = <<"SIG_DFL">>
    /\ call_args \in DepthArgs

SpecDepth == InitDepth /\ [][NextDepth]_vars

\* every pair of end points an int can hold
LineArgs ==
    [x1 : INT_MIN..INT_MAX, y1 : INT_MIN..INT_MAX,
     x2 : INT_MIN..INT_MAX, y2 : INT_MIN..INT_MAX]

\* the line of the run, drawn in red
LineStep ==
    \E ub \in {"wrap", "trap"} :
       __tr_draw_line_2d(call_args.x1, call_args.y1, call_args.x2, call_args.y2, RED, ub)

\* frames that draw the run's line, before and in a session
NextLine ==
    \/ TR_InitWindow(MAP_WIDTH, MAP_HEIGHT + 3, TRUE)
    \/ \E g \in GarbageBufs : TR_BeginDrawing(g)
    \/ LineStep

\* a POSIX run on a terminal of MaxCols columns by 2 rows
InitLine ==
    /\ InitEngine
    /\ platform = "posix"
    /\ term_size = <<MaxCols, 2>>
    /\ tty_mode = CookedMode(platform)
    /\ sigint_chain = <<"SIG_DFL">>
    /\ call_args \in LineArgs

SpecLine == InitLine /\ [][NextLine]_vars

----------------------------------------------------------------------------
\* Steps, as the properties below name them

BeginStep == \E g \in GarbageBufs : TR_BeginDrawing(g)

\* a begin_frame that passed the open and resize checks and sampled the input
SamplingStep == BeginStep /\ __tr_window_open /\ proc' = "running"

OpenStep == \E malloc_ok \in BOOLEAN : TR_InitWindow(MAP_WIDTH, MAP_HEIGHT + 3, malloc_ok)

\* the key codes a session can see
KeyCodes == {0, 113, 97, TR_KEY_ESCAPE, TR_KEY_UP, TR_KEY_DOWN, TR_KEY_LEFT,
             TR_KEY_RIGHT, TR_KEY_F1, TR_KEY_F2, TR_KEY_F3, TR_KEY_F4, TR_KEY_F5,
             TR_KEY_F6, TR_KEY_F7, TR_KEY_F8, TR_KEY_F9, TR_KEY_F10, TR_KEY_F11,
             TR_KEY_F12}

\* the process has ended on one of the engine's fatal conditions
Fatal == proc \in {"exit_dims", "exit_alloc", "exit_resize"}

IsReset(c) == c = <<"sgr0">> \/ c = <<"attr", WinAttributes(WHITE, BLACK)>>
IsShowCursor(c) == c = <<"cursor_visible", TRUE>>
IsClear(c) == c[1] = "clear" \/ c[1] = "fill"

\* colours reset, then the cursor shown, then the screen cleared
VisibleStateRestored(cmds) ==
    \E i, j, k \in 1..Len(cmds) :
        i < j /\ j < k /\ IsReset(cmds[i]) /\ IsShowCursor(cmds[j]) /\ IsClear(cmds[k])

----------------------------------------------------------------------------
\* C2 as claimed: a begin_frame that finds no key pending leaves the last-key
\* slot as it was.
C2_SlotKeptWhenNoKey ==
    [][(SamplingStep /\ stdin_pending = <<>>) => __tr_key_buffer' = __tr_key_buffer]_vars

\* C2, amended: every begin_frame that samples the input overwrites the last-key
\* slot with what it read, so with no key pending the slot becomes 0 whatever it
\* held; the slot changes in begin_frame, take_key_pressed and open only.
C2_SlotOverwrittenEachFrame ==
    [][/\ (SamplingStep /\ stdin_pending = <<>>) => __tr_key_buffer' = 0
       /\ (SamplingStep /\ stdin_pending # <<>>) => __tr_key_buffer' = Head(stdin_pending)
       /\ __tr_key_buffer' # __tr_key_buffer
            => (SamplingStep \/ TR_GetKeyPressed \/ OpenStep)]_vars

\* a frame found nothing pending and cleared a slot that held 'q'
C2_Witness ==
    /\ op = "TR_BeginDrawing"
    /\ proc = "running"
    /\ __tr_window_open
    /\ key_was = 113
    /\ __tr_key_buffer = 0

\* C4: a begin_frame that sees another terminal size than the one captured at
\* open ends the process without sampling a key and without touching either cell
\* buffer, and nothing (no flush) happens after the process has ended; with the
\* size unchanged begin_frame never ends the process.
C4_ResizeIsFatal ==
    [][/\ proc = "running"
       /\ (BeginStep /\ __tr_window_open)
            => IF term_size # <<__tr_initial_width, __tr_initial_height>>
               THEN /\ proc' = "exit_resize"
                    /\ UNCHANGED <<__tr_key_buffer, stdin_pending, __tr_screen_buffer,
                                   __tr_prev_screen_buffer>>
               ELSE proc' = "running"]_vars

\* the process ended on a resize with a key still unread and a drawn pixel that
\* the frame would have wiped still in the buffer
C4_Witness ==
    /\ proc = "exit_resize"
    /\ op = "TR_BeginDrawing"
    /\ stdin_pending # <<>>
    /\ __tr_screen_buffer[1] = Cell(" ", RED, RED)
    /\ __tr_current_bg_color = BLACK

\* C5 as claimed: each of the three fatal conditions resets colours, shows the
\* cursor and clears the screen before the process ends.
C5_EveryFatalRestores == Fatal => VisibleStateRestored(out)

\* C5, amended: the resize exit of begin_frame resets colours, shows the cursor
\* and clears the screen before the process ends; the two fatal conditions of
\* open (no terminal dimensions, allocation failure) end the process without
\* sending the terminal anything.
C5_OnlyResizeRestores ==
    /\ proc = "exit_resize" => VisibleStateRestored(out)
    /\ proc \in {"exit_dims", "exit_alloc"} => out = <<>>

C5_Witness == proc = "exit_resize" /\ VisibleStateRestored(out) /\ Len(out) >= 3

\* C7 as claimed: once should_close() is true it stays true until close().
C7_ShouldCloseLatched ==
    [][(TR_WindowShouldClose /\ __tr_window_open /\ __tr_window_open')
          => TR_WindowShouldClose']_vars

\* C7, amended: should_close() is true exactly while the last-key slot holds
\* Escape (27) or 'q': a begin_frame that samples 'q' makes it true, and the next
\* begin_frame that samples another key or no key, or a take_key_pressed(), makes
\* it false again; it is false until a frame has sampled a quit key.
C7_ShouldCloseFollowsSlot ==
    [][/\ TR_WindowShouldClose' <=> __tr_key_buffer' \in {TR_KEY_ESCAPE, 113}
       /\ (SamplingStep /\ stdin_pending # <<>> /\ Head(stdin_pending) = 113)
            => TR_WindowShouldClose'
       /\ (SamplingStep /\ (stdin_pending = <<>> \/ Head(stdin_pending) = 97))
            => ~TR_WindowShouldClose'
       /\ TR_GetKeyPressed => ~TR_WindowShouldClose'
       /\ (~TR_WindowShouldClose /\ TR_WindowShouldClose')
            => (SamplingStep /\ stdin_pending # <<>>
                  /\ Head(stdin_pending) \in {TR_KEY_ESCAPE, 113})]_vars

\* a frame sampled 'a' over a slot that held 'q': should_close() went back to false
C7_Witness ==
    /\ op = "TR_BeginDrawing"
    /\ __tr_window_open
    /\ proc = "running"
    /\ key_was = 113
    /\ __tr_key_buffer = 97
    /\ ~TR_WindowShouldClose

\* C10: take_key_pressed() returns the last-key slot and sets it to 0, so a take
\* on a cleared slot returns 0; while the slot is 0 key_down(k) and key_pressed(k)
\* are false for every k other than 0, and only a begin_frame that reads a key
\* makes the slot non-zero again.
C10_TakeClearsSlot ==
    [][/\ TR_GetKeyPressed => (ret' = __tr_key_buffer /\ __tr_key_buffer' = 0)
       /\ (TR_GetKeyPressed /\ __tr_key_buffer = 0) => ret' = 0
       /\ __tr_key_buffer' = 0
            => \A k \in KeyCodes \ {0} : ~TR_IsKeyDown(k)' /\ ~TR_IsKeyPressed(k)'
       /\ (__tr_key_buffer = 0 /\ __tr_key_buffer' # 0)
            => (SamplingStep /\ stdin_pending # <<>>)]_vars

\* a take returned 'q' and left the slot cleared
C10_Witness ==
    /\ op = "TR_GetKeyPressed"
    /\ ret = 113
    /\ key_was = 113
    /\ __tr_key_buffer = 0

----------------------------------------------------------------------------
\* C3 as claimed: after open() followed by close() the terminal input mode is
\* the mode the terminal had immediately before that open(), whatever frames ran
\* in between and however often the cycle repeats, on every platform.
C3_ModeRestoredAtClose ==
    [][(TR_CloseWindow /\ __tr_window_open) => tty_mode' = pre_open_mode]_vars

----------------------------------------------------------------------------
\* C8 as claimed: when the pending input is the single Escape byte the reader
\* returns TR_KEY_ESCAPE (27), so the begin_frame that samples it makes
\* should_close() and key_pressed(TR_KEY_ESCAPE) true.
C8_LoneEscapeIsEscape ==
    [][(SamplingStep /\ stdin_pending = <<27>>)
          => /\ __tr_key_buffer' = TR_KEY_ESCAPE
             /\ TR_WindowShouldClose'
             /\ TR_IsKeyPressed(TR_KEY_ESCAPE)']_vars

\* C9 as claimed: when the escape sequence of an arrow key or of one of F1..F12
\* is the complete pending input of a POSIX terminal, the reader returns the
\* code of that key.
C9_SequencesDecode ==
    [][\A e \in PosixKeyTable :
          (SamplingStep /\ platform = "posix" /\ stdin_pending = e[1])
             => __tr_key_buffer' = e[2]]_vars

----------------------------------------------------------------------------
\* Flushes, as C1 reads them

\* a flush of an open window
FlushStep == TR_EndDrawing /\ __tr_window_open

\* the cell positions of the buffers, as 0-based indexes in row-major order
Positions == 0..(__tr_buffer_width * __tr_buffer_height - 1)

\* the positions a command sequence moves the cursor to
WrittenAt(cmds) ==
    {cmds[i][3] * __tr_buffer_width + cmds[i][2] :
        i \in {j \in 1..Len(cmds) : cmds[j][1] = "cursor"}}

Rgb(c) == <<c[1], c[2], c[3]>>

\* two cells that differ in the glyph or in the red, green or blue of a colour
DifferVisibly(a, b) ==
    \/ a.character # b.character
    \/ Rgb(a.fg_color) # Rgb(b.fg_color)
    \/ Rgb(a.bg_color) # Rgb(b.bg_color)

\* the positions where the frame differs from the previous one in any field
DifferingAt ==
    {i \in Positions : __tr_screen_buffer[i + 1] # __tr_prev_screen_buffer[i + 1]}

\* the positions where it differs from the previous one visibly
VisiblyDifferingAt ==
    {i \in Positions :
        DifferVisibly(__tr_screen_buffer[i + 1], __tr_prev_screen_buffer[i + 1])}

\* C1 as claimed: a flush writes a cell position if and only if the cell's
\* (glyph, fg, bg) differs from the previous frame's cell at that position, so
\* two frames that differ in exactly k cells get exactly those k positions written.
C1_WritesEveryDifferingCell ==
    [][FlushStep
          => /\ WrittenAt(out') = DifferingAt
             /\ Len(out') = 3 * Cardinality(DifferingAt)]_vars

\* C1, amended: a flush writes a cell position (cursor move, colours, glyph, in
\* row-major order) if and only if the cell differs from the previous frame's
\* cell in the glyph or in the red, green or blue component of the foreground
\* or background; the alpha component is not compared, so a cell that differs in
\* alpha only is not written.  The previous frame becomes the flushed one.
C1_WritesVisiblyDifferingCells ==
    [][FlushStep
          => /\ WrittenAt(out') = VisiblyDifferingAt
             /\ Len(out') = 3 * Cardinality(VisiblyDifferingAt)
             /\ \A i \in 1..Len(out') :
                   out'[i][1] = "cursor"
                     => LET c == __tr_screen_buffer[out'[i][3] * __tr_buffer_width
                                                      + out'[i][2] + 1]
                        IN  /\ <<out'[i + 1]>> =
                                  __tr_set_terminal_color(platform, c.fg_color, c.bg_color)
                            /\ out'[i + 2] = <<"putc", c.character>>
                            /\ i + 3 <= Len(out')
                                  => out'[i + 3][3] * __tr_buffer_width + out'[i + 3][2]
                                       > out'[i][3] * __tr_buffer_width + out'[i][2]
             /\ __tr_prev_screen_buffer' = __tr_screen_buffer]_vars

\* a flush of a frame that differed from the previous one in two cells, in one
\* of them in alpha only, wrote one cell
C1_Witness ==
    /\ op = "TR_EndDrawing"
    /\ __tr_window_open
    /\ frame_diff = 2
    /\ Len(out) = 3
    /\ __tr_screen_buffer[1].bg_color = BLACK_A0

----------------------------------------------------------------------------
\* C11: open() called while a window is open changes nothing: both cell
\* buffers and their contents, the captured width and height, the target frame
\* period, the last-key slot, the current background colour, the saved state,
\* the terminal mode, the pending input and the interrupt handlers stay as they
\* are, and nothing is sent to the terminal.
C11_ReopenIsNoOp ==
    [][(OpenStep /\ __tr_window_open)
          => /\ UNCHANGED <<engine, saved, env, proc>>
             /\ out' = <<>>]_vars

\* a second open found a window with a drawn cell and a sampled key, and left both
C11_Witness ==
    /\ op = "TR_InitWindow"
    /\ out = <<>>
    /\ __tr_window_open
    /\ __tr_key_buffer = 113
    /\ __tr_screen_buffer[1] = Cell(" ", RED, RED)
    /\ __tr_prev_screen_buffer[1] = Cell(" ", RED, RED)

----------------------------------------------------------------------------
\* the sizes of the session: width, height and the lengths of the two arrays
BufferShape ==
    <<__tr_buffer_width, __tr_buffer_height, Len(__tr_screen_buffer),
      Len(__tr_prev_screen_buffer)>>

\* C12: while a window is open the current and the previous cell array each hold
\* exactly width * height cells; an open that succeeds captures the size the
\* terminal has at that moment, not the width and height it was called with,
\* and no operation other than open and close changes width, height or the
\* length of either array.
C12_BuffersKeepCapturedSize ==
    [][/\ __tr_window_open'
            => /\ Len(__tr_screen_buffer') = __tr_buffer_width' * __tr_buffer_height'
               /\ Len(__tr_prev_screen_buffer') = __tr_buffer_width' * __tr_buffer_height'
       /\ (OpenStep /\ ~__tr_window_open /\ __tr_window_open')
            => /\ <<__tr_buffer_width', __tr_buffer_height'>> = term_size
               /\ <<__tr_buffer_width', __tr_buffer_height'>>
                     # <<MAP_WIDTH, MAP_HEIGHT + 3>>
       /\ BufferShape' # BufferShape => (OpenStep \/ TR_CloseWindow)]_vars

\* a window opened on a terminal narrower than asked for, a cell was drawn and
\* flushed, and the terminal has another size now: the arrays keep the first one
C12_Witness ==
    /\ __tr_window_open
    /\ proc = "running"
    /\ op = "TR_EndDrawing"
    /\ term_size # <<__tr_buffer_width, __tr_buffer_height>>
    /\ term_size # <<0, 0>>
    /\ Len(__tr_screen_buffer) = __tr_buffer_width * __tr_buffer_height
    /\ __tr_buffer_width < MAP_WIDTH
    /\ __tr_prev_screen_buffer[1] = Cell(" ", RED, RED)

----------------------------------------------------------------------------
\* Target cells of the drawing calls, as sets of <<column, row>>

RectCells(x, y, width, height) ==
    {<<cx, cy>> : cx \in x..(x + width - 1), cy \in y..(y + height - 1)}

Perimeter(x, y, width, height) ==
    {c \in RectCells(x, y, width, height) :
        c[1] \in {x, x + width - 1} \/ c[2] \in {y, y + height - 1}}

TextCells(text, x, y) == {<<x + i, y>> : i \in 0..(Len(text) - 1)}

BufferCells == (0..(__tr_buffer_width - 1)) \X (0..(__tr_buffer_height - 1))

\* a step that changes no cell of the current buffer outside T, and no cell of
\* the previous buffer at all
OnlyChanges(T) ==
    /\ \A c \in BufferCells \ T :
          CellAt(__tr_screen_buffer', __tr_buffer_width, c[1], c[2])
            = CellAt(__tr_screen_buffer, __tr_buffer_width, c[1], c[2])
    /\ Len(__tr_screen_buffer') = Len(__tr_screen_buffer)
    /\ UNCHANGED <<__tr_prev_screen_buffer, __tr_buffer_width, __tr_buffer_height>>

\* is the call a rectangle call with a size of at least 1 by 1
ProperSize == call_args.width >= 1 /\ call_args.height >= 1

\* C13: a drawing call changes no cell outside its target, so a call whose
\* target lies entirely outside the buffer changes nothing and a call whose
\* target lies partly outside changes in-range target cells only; the previous
\* buffer is never touched.  Rectangles here are at least 1 by 1.
C13_DrawingIsClipped ==
    [][/\ PixelStep => OnlyChanges({<<call_args.x, call_args.y>>})
       /\ TextStep => OnlyChanges(TextCells(<<"a", "b">>, call_args.x, call_args.y))
       /\ (RectangleStep /\ ProperSize)
            => OnlyChanges(RectCells(call_args.x, call_args.y, call_args.width,
                                     call_args.height))
       /\ (RectangleLinesStep /\ ProperSize)
            => OnlyChanges(Perimeter(call_args.x, call_args.y, call_args.width,
                                     call_args.height))]_vars

\* a 1 by 3 rectangle hanging over the top edge painted the two cells of it that
\* are in range, and the cell next to it kept the cleared background
C13_Witness ==
    /\ op = "TR_DrawRectangle"
    /\ __tr_window_open
    /\ call_args.x = 0 /\ call_args.y = -1
    /\ call_args.width = 1 /\ call_args.height = 3
    /\ call_args.bg_color = BLANK
    /\ __tr_screen_buffer[1] = Cell(" ", WHITE, RED)
    /\ __tr_screen_buffer[2] = Cell(" ", RED, RED)
    /\ __tr_screen_buffer[__tr_buffer_width + 1] = Cell(" ", WHITE, RED)

\* C14 as claimed: draw_rectangle and draw_rectangle_lines called with
\* width <= 0 or height <= 0 change no cell of the current buffer.
C14_EmptyRectanglesDrawNothing ==
    [][((RectangleStep \/ RectangleLinesStep) /\ ~ProperSize)
          => UNCHANGED __tr_screen_buffer]_vars

----------------------------------------------------------------------------
\* the cells of T that lie in the buffer
InBuffer(T) == T \cap BufferCells

\* the background a call of the run resolves its bg_color to: the colour of the
\* last clear while bg_color has the red, green and blue of the BLANK sentinel
ResolvedBg ==
    IF Rgb(call_args.bg_color) = Rgb(BLANK) THEN __tr_current_bg_color
    ELSE call_args.bg_color

\* every in-range cell of T holds the given cell after the step
Paints(T, cell) ==
    \A c \in InBuffer(T) :
        CellAt(__tr_screen_buffer', __tr_buffer_width, c[1], c[2]) = cell

\* C15 as claimed: every in-range cell of a rectangle is left by draw_rectangle
\* as draw_pixel would leave it: a space whose foreground and background are
\* both the fill colour, whatever fg and bg are.
C15_RectangleCellsLikePixels ==
    [][(RectangleStep /\ __tr_window_open)
          => \E fill \in {call_args.fg_color, ResolvedBg} :
                Paints(RectCells(call_args.x, call_args.y, call_args.width,
                                 call_args.height),
                       Cell(" ", fill, fill))]_vars

\* C15, amended: draw_rectangle(x, y, w, h, fg, bg) leaves every in-range cell
\* of the rectangle as (space, fg, bg'), with bg' the resolved background; that
\* is the cell draw_pixel(c) leaves, (space, c, c), only when fg = bg' = c.
C15_RectangleCellsKeepForeground ==
    [][/\ (RectangleStep /\ __tr_window_open)
            => Paints(RectCells(call_args.x, call_args.y, call_args.width,
                                call_args.height),
                      Cell(" ", call_args.fg_color, ResolvedBg))
       /\ (PixelStep /\ __tr_window_open)
            => Paints({<<call_args.x, call_args.y>>},
                      Cell(" ", call_args.fg_color, call_args.fg_color))]_vars

\* a rectangle left a cell with a white foreground on a red background, where a
\* pixel would have left one colour
C15_Witness ==
    /\ op = "TR_DrawRectangle"
    /\ __tr_window_open
    /\ call_args.bg_color = RED
    /\ call_args.x = 0 /\ call_args.y = 0
    /\ call_args.width = 1 /\ call_args.height = 1
    /\ __tr_screen_buffer[1] = Cell(" ", WHITE, RED)
    /\ __tr_screen_buffer[2] = Cell(" ", BLACK, BLACK)

----------------------------------------------------------------------------
\* C16: for width >= 1 and height >= 1 draw_rectangle_lines writes
\* ('#', fg, resolved bg) to exactly the in-range cells of the rectangle's
\* perimeter and leaves the interior and everything outside the rectangle as it
\* was, also when the rectangle is 1 wide, 1 high or 2 high.
C16_BorderIsThePerimeter ==
    [][(RectangleLinesStep /\ __tr_window_open /\ ProperSize)
          => /\ Paints(Perimeter(call_args.x, call_args.y, call_args.width,
                                  call_args.height),
                        Cell("#", call_args.fg_color, ResolvedBg))
             /\ OnlyChanges(Perimeter(call_args.x, call_args.y, call_args.width,
                                       call_args.height))]_vars

\* a 3 by 3 border around the top left cell: the cell inside it is untouched and
\* the in-range cells of its right and bottom lines are drawn
C16_Witness ==
    /\ op = "TR_DrawRectangleLines"
    /\ __tr_window_open
    /\ call_args.x = -1 /\ call_args.y = -1
    /\ call_args.width = 3 /\ call_args.height = 3
    /\ call_args.bg_color = RED
    /\ __tr_screen_buffer[1] = Cell(" ", BLACK, BLACK)
    /\ __tr_screen_buffer[2] = Cell("#", WHITE, RED)
    /\ __tr_screen_buffer[__tr_buffer_width + 1] = Cell("#", WHITE, RED)
    /\ __tr_screen_buffer[__tr_buffer_width + 2] = Cell("#", WHITE, RED)

\* C17 as claimed: draw_text(text, x, y, fg, bg) sets cell (x + i, y) to
\* (text[i], fg, bg') for each in-range i, where bg' is the colour of the last
\* clear (black if none since open) when bg is the BLANK sentinel and bg itself
\* otherwise; no other cell changes.
C17_TextUsesBgUnlessBlank ==
    [][(TextStep /\ __tr_window_open)
          => /\ \A i \in 0..1 :
                   Paints({<<call_args.x + i, call_args.y>>},
                          Cell(<<"a", "b">>[i + 1], call_args.fg_color,
                               IF call_args.bg_color = BLANK
                               THEN __tr_current_bg_color ELSE call_args.bg_color))
             /\ OnlyChanges(TextCells(<<"a", "b">>, call_args.x, call_args.y))]_vars

\* C17, amended: as claimed, except that bg counts as the BLANK sentinel
\* whenever its red, green and blue are those of BLANK (1, 0, 0), whatever its
\* alpha: such a bg is replaced by the colour of the last clear too.
C17_TextResolvesBlankByRgb ==
    [][/\ (TextStep /\ __tr_window_open)
            => /\ \A i \in 0..1 :
                     Paints({<<call_args.x + i, call_args.y>>},
                            Cell(<<"a", "b">>[i + 1], call_args.fg_color, ResolvedBg))
               /\ OnlyChanges(TextCells(<<"a", "b">>, call_args.x, call_args.y))
       /\ __tr_current_bg_color' # __tr_current_bg_color
            => (TR_ClearBackground(RED) /\ __tr_window_open)]_vars

\* text drawn over a background cleared to red with the opaque colour (1, 0, 0)
\* as bg: its second character fell off the right edge, the first one stands on red
C17_Witness ==
    /\ op = "TR_DrawText"
    /\ __tr_window_open
    /\ call_args.bg_color = <<1, 0, 0, 255>>
    /\ call_args.x = __tr_buffer_width - 1 /\ call_args.y = 0
    /\ __tr_current_bg_color = RED
    /\ __tr_screen_buffer[__tr_buffer_width] = Cell("a", WHITE, RED)
    /\ __tr_screen_buffer[__tr_buffer_width + 1] = Cell(" ", RED, RED)

----------------------------------------------------------------------------
\* C18: a begin_frame that returns with a window open leaves every cell of the
\* current buffer as (space, c, c), c being the colour of the last clear() made
\* while the window was open, or black if there was none since the open: an
\* open sets the colour to black, a clear of an open window sets it to its
\* argument and paints every cell with it, and nothing else changes it;
\* begin_frame and clear leave the previous-frame buffer alone.
C18_FrameStartsCleared ==
    [][/\ SamplingStep
            => /\ __tr_screen_buffer' =
                     Filled(__tr_buffer_width * __tr_buffer_height,
                            Cell(" ", __tr_current_bg_color, __tr_current_bg_color))
               /\ UNCHANGED <<__tr_prev_screen_buffer, __tr_current_bg_color>>
       /\ \A c \in ClearColors :
             TR_ClearBackground(c)
               => /\ UNCHANGED __tr_prev_screen_buffer
                  /\ IF __tr_window_open
                     THEN /\ __tr_current_bg_color' = c
                          /\ __tr_screen_buffer' =
                                Filled(__tr_buffer_width * __tr_buffer_height,
                                       Cell(" ", c, c))
                     ELSE UNCHANGED <<__tr_current_bg_color, __tr_screen_buffer>>
       /\ (OpenStep /\ ~__tr_window_open /\ __tr_window_open')
            => __tr_current_bg_color' = BLACK
       /\ __tr_current_bg_color' # __tr_current_bg_color
            => \/ ClearStep /\ __tr_window_open
               \/ OpenStep /\ ~__tr_window_open]_vars

\* a frame began after a clear to transparent black and a flushed red cell: the
\* red cell is gone from the current buffer and still in the previous one
C18_Witness ==
    /\ op = "TR_BeginDrawing"
    /\ __tr_window_open
    /\ proc = "running"
    /\ __tr_current_bg_color = BLACK_A0
    /\ \A i \in 1..Len(__tr_screen_buffer) :
          __tr_screen_buffer[i] = Cell(" ", BLACK_A0, BLACK_A0)
    /\ __tr_prev_screen_buffer[1] = Cell(" ", RED, RED)

----------------------------------------------------------------------------
\* the 8 canonical colours in palette order: black, red, green, yellow, blue,
\* magenta, cyan, white
Canonical ==
    << <<0, 0, 0>>, <<255, 0, 0>>, <<0, 255, 0>>, <<255, 255, 0>>,
       <<0, 0, 255>>, <<255, 0, 255>>, <<0, 255, 255>>, <<255, 255, 255>> >>

SquaredDistance(a, b) ==
    (a[1] - b[1]) * (a[1] - b[1]) + (a[2] - b[2]) * (a[2] - b[2])
      + (a[3] - b[3]) * (a[3] - b[3])

\* i is the lowest index whose canonical colour is nearest to c
LowestNearest(c, i) ==
    /\ i \in 0..7
    /\ \A j \in 0..7 :
          SquaredDistance(Rgb(c), Canonical[i + 1]) <= SquaredDistance(Rgb(c), Canonical[j + 1])
    /\ \A j \in 0..(i - 1) :
          SquaredDistance(Rgb(c), Canonical[j + 1]) > SquaredDistance(Rgb(c), Canonical[i + 1])

\* C19: for every colour the palette mapping returns the lowest index in 0..7
\* whose canonical colour has the least squared RGB distance to it; the result
\* does not depend on alpha or on the is_background flag, and each canonical
\* colour maps to its own index.
C19_NearestCanonicalColour ==
    op = "__tr_map_color_to_terminal"
      => /\ LowestNearest(call_args.color, ret)
         /\ \A a \in {0, 255}, b \in BOOLEAN :
               __tr_map_color_to_terminal(
                   <<call_args.color[1], call_args.color[2], call_args.color[3], a>>, b)
                 = ret
         /\ \A i \in 0..7 : Rgb(call_args.color) = Canonical[i + 1] => ret = i

\* transparent (128, 127, 255), asked for as a background, mapped to magenta
C19_Witness ==
    /\ op = "__tr_map_color_to_terminal"
    /\ call_args.color = <<128, 127, 255, 0>>
    /\ call_args.is_background
    /\ ret = 5

----------------------------------------------------------------------------
\* p is floor(1000000 / fps) for a positive fps
IsFloorOfPeriod(p, fps) == p * fps <= 1000000 /\ 1000000 < (p + 1) * fps

\* end_frame went into the pacing sleep
Paced == pc' = "sleep"

\* C20 as claimed: set_target_fps(fps) stores floor(1000000 / fps) microseconds
\* for fps > 0 and 0 for fps <= 0, and pacing is off if and only if fps <= 0:
\* for every fps > 0 the stored period is positive and end_frame paces the frame.
C20_PacedIffPositiveRate ==
    [][SetRateStep
          => /\ IF call_args.fps > 0
                THEN IsFloorOfPeriod(__tr_frame_time_us', call_args.fps)
                ELSE __tr_frame_time_us' = 0
             /\ __tr_frame_time_us' > 0 <=> call_args.fps > 0]_vars

\* C20, amended: set_target_fps(fps) stores floor(1000000 / fps) microseconds
\* for fps > 0 and 0 for fps <= 0; the stored period is positive, and end_frame
\* paces a frame that took less than it, if and only if 0 < fps <= 1000000: a
\* rate above 1000000 stores 0 and turns pacing off like fps <= 0 does.
C20_PacedUpToAMillionFps ==
    [][/\ SetRateStep
            => /\ IF call_args.fps > 0
                  THEN IsFloorOfPeriod(__tr_frame_time_us', call_args.fps)
                  ELSE __tr_frame_time_us' = 0
               /\ __tr_frame_time_us' > 0
                     <=> (call_args.fps > 0 /\ call_args.fps <= 1000000)
       /\ FlushStep
            => (Paced <=> /\ __tr_frame_time_us > 0
                          /\ elapsed_ns < __tr_frame_time_us * 1000)
       /\ __tr_frame_time_us' # __tr_frame_time_us => (SetRateStep \/ OpenStep)]_vars

\* an open window was set to 1000001 frames per second and the stored period is 0
C20_Witness ==
    /\ op = "TR_SetTargetFPS"
    /\ __tr_window_open
    /\ call_args.fps = 1000001
    /\ __tr_frame_time_us = 0

----------------------------------------------------------------------------
\* end_frame returns: at once when it does not sleep, or when its sleep ends
EndReturns == (FlushStep /\ pc' = "run") \/ SleepReturns

\* C21 as claimed: with a positive target period an end_frame returns only once
\* the full period has elapsed on the monotonic clock since the frame start that
\* begin_frame recorded, however often an interrupt cuts the sleep short; when
\* the period has already elapsed it does not sleep; and the sleep, once asked
\* for, is the only thing between end_frame and its return.
C21_FrameLastsFullPeriod ==
    [][/\ (EndReturns /\ __tr_frame_time_us > 0)
            => elapsed_ns' >= __tr_frame_time_us * 1000
       /\ (FlushStep /\ __tr_frame_time_us > 0
                      /\ elapsed_ns >= __tr_frame_time_us * 1000)
            => (pc' = "run" /\ UNCHANGED elapsed_ns)
       /\ (SigIntStep /\ pc = "sleep")
            => (proc' = "running" /\ pc' = "sleep"
                  /\ elapsed_ns' + sleep_req' = elapsed_ns + sleep_req)]_vars

----------------------------------------------------------------------------
\* The depth test

\* the depth a triangle of the run has at each index it reaches
PixelsOf(t) == TriangleDepths(t[1], t[2], t[3], TR_MatrixIdentity)

\* the cells both triangles of the run reach
Overlap == DOMAIN PixelsOf(call_args.a) \cap DOMAIN PixelsOf(call_args.b)

\* the buffers are as triangle t, drawn in color on a depth buffer reset to
\* far, leaves them
DrawnOnFar(t, color) ==
    /\ __tr_window_open
    /\ __tr_z_buffer # NULL
    /\ __tr_z_buffer = FillPixels(Filled(__tr_z_buffer_size, FAR), __tr_screen_buffer,
                                  PixelsOf(t), color, FAR).z
    /\ \A i \in DOMAIN PixelsOf(t) :
          FloatLess(PixelsOf(t)[i], FAR) => __tr_screen_buffer[i + 1] = Cell(" ", color, color)

\* overlapping cell i ends with the colour and the depth of the nearer triangle
NearerWins(i) ==
    LET za == PixelsOf(call_args.a)[i]
        zb == PixelsOf(call_args.b)[i]
    IN  /\ FloatLess(za, zb)
           => /\ __tr_screen_buffer'[i + 1] = Cell(" ", RED, RED)
              /\ __tr_z_buffer'[i + 1] = za
        /\ FloatLess(zb, za)
           => /\ __tr_screen_buffer'[i + 1] = Cell(" ", GREEN, GREEN)
              /\ __tr_z_buffer'[i + 1] = zb

\* the smaller of the two depths at overlapping cell i is nearer than far
NearerThanFar(i) ==
    \/ FloatLess(PixelsOf(call_args.a)[i], FAR)
    \/ FloatLess(PixelsOf(call_args.b)[i], FAR)

\* C22 as claimed: from a depth buffer reset to far, whichever of the two
\* triangles is drawn second, every overlapping cell where their depths differ
\* ends with the colour of the triangle with the smaller depth there, and its
\* depth entry holds that depth
C22_NearestWinsEitherOrder ==
    [][/\ (DrawnOnFar(call_args.a, RED) /\ FillBStep) => \A i \in Overlap : NearerWins(i)
       /\ (DrawnOnFar(call_args.b, GREEN) /\ FillAStep) => \A i \in Overlap : NearerWins(i)]_vars

\* C22, amended: from a depth buffer reset to far, whichever of the two
\* triangles is drawn second, every overlapping cell where their depths differ
\* and the smaller one is nearer than far ends with the colour of the triangle
\* with the smaller depth there, and its depth entry holds that depth
C22_NearestWinsWithinFar ==
    [][/\ (DrawnOnFar(call_args.a, RED) /\ FillBStep)
            => \A i \in Overlap : NearerThanFar(i) => NearerWins(i)
       /\ (DrawnOnFar(call_args.b, GREEN) /\ FillAStep)
            => \A i \in Overlap : NearerThanFar(i) => NearerWins(i)]_vars

\* both triangles have been drawn over a reset depth buffer, and each is the
\* nearer one, and shows, at some overlapping cell
C22_EachWinsSomewhere ==
    /\ __tr_window_open
    /\ op = "TR_DrawTriangle3DFilled"
    /\ \E i \in Overlap :
          /\ FloatLess(PixelsOf(call_args.a)[i], PixelsOf(call_args.b)[i])
          /\ __tr_z_buffer[i + 1] = PixelsOf(call_args.a)[i]
          /\ __tr_screen_buffer[i + 1] = Cell(" ", RED, RED)
    /\ \E j \in Overlap :
          /\ FloatLess(PixelsOf(call_args.b)[j], PixelsOf(call_args.a)[j])
          /\ __tr_z_buffer[j + 1] = PixelsOf(call_args.b)[j]
          /\ __tr_screen_buffer[j + 1] = Cell(" ", GREEN, GREEN)

\* the depth triangle k of the run's cube has at each index it reaches
FacePixels(k) ==
    TriangleDepths(CubeFace(k)[1], CubeFace(k)[2], CubeFace(k)[3], call_args.mvp_matrix)

\* the nearest of far and the depths of the cube's triangles at index i
NearestOfCube(i) ==
    LET depths == {FAR} \cup {FacePixels(k)[i] :
                                k \in {f \in 0..(__tr_num_cube_faces - 1) :
                                          i \in DOMAIN FacePixels(f)}}
    IN  CHOOSE m \in depths : \A d \in depths : ~FloatLess(d, m)

\* a filled triangle drawn in color changed entry i of the depth buffer to a
\* strictly smaller value, and wrote its pixel with it
LoweredWithPixel(i, color) ==
    /\ \E g \in GarbageDepths :
          FloatLess(__tr_z_buffer'[i + 1], ReadDepth(__tr_z_buffer[i + 1], g))
    /\ __tr_screen_buffer'[i + 1] = Cell(" ", color, color)

\* C23: draw_cube_filled resets the depth buffer to far once, before its first
\* triangle, so it leaves in every entry the nearest of far and the depths of
\* its 12 triangles there; draw_filled_triangle leaves every entry as it was or
\* changes it to a strictly smaller value together with that cell's pixel
C23_ResetOncePerCube ==
    [][/\ (op' = "TR_DrawCubeFilled3D" /\ __tr_z_buffer # NULL /\ CubeStep)
            => \A i \in 0..(__tr_z_buffer_size - 1) :
                  /\ __tr_z_buffer'[i + 1] = NearestOfCube(i)
                  /\ FloatLess(NearestOfCube(i), FAR)
                        => __tr_screen_buffer'[i + 1] = Cell(" ", BLUE, BLUE)
       /\ (op' = "TR_DrawTriangle3DFilled" /\ __tr_z_buffer # NULL /\ FillAStep)
            => \A i \in 0..(__tr_z_buffer_size - 1) :
                  \/ __tr_z_buffer'[i + 1] = __tr_z_buffer[i + 1]
                  \/ LoweredWithPixel(i, RED)
       /\ (op' = "TR_DrawTriangle3DFilled" /\ __tr_z_buffer # NULL /\ FillBStep)
            => \A i \in 0..(__tr_z_buffer_size - 1) :
                  \/ __tr_z_buffer'[i + 1] = __tr_z_buffer[i + 1]
                  \/ LoweredWithPixel(i, GREEN)]_vars

\* a cube has been drawn whose triangles reach one cell at different depths,
\* and the cell holds the nearest of them
C23_CubeKeptNearest ==
    /\ __tr_window_open
    /\ op = "TR_DrawCubeFilled3D"
    /\ \E i \in 0..(__tr_z_buffer_size - 1) :
          /\ \E k \in 0..(__tr_num_cube_faces - 1) :
                /\ i \in DOMAIN FacePixels(k)
                /\ FloatLess(__tr_z_buffer[i + 1], FacePixels(k)[i])
          /\ FloatLess(__tr_z_buffer[i + 1], FAR)
          /\ __tr_screen_buffer[i + 1] = Cell(" ", BLUE, BLUE)

\* a 3D drawing call of the run
Draw3DStep == FillAStep \/ FillBStep \/ CubeStep

\* C26 as claimed: a 3D drawing call made while no window is open touches no
\* buffer: the cell buffers and the depth buffer stay as they are and the
\* process goes on
C26_DrawOutsideSessionIsNoOp ==
    [][(Draw3DStep /\ ~__tr_window_open)
          => /\ proc' = "running"
             /\ UNCHANGED <<__tr_screen_buffer, __tr_prev_screen_buffer, __tr_z_buffer>>]_vars

\* entry i of the depth buffer holds far, or a depth a triangle wrote in the
\* current frame
FarOrFresh(i) ==
    \/ __tr_z_buffer[i + 1] = FAR
    \/ __tr_z_buffer[i + 1] # Uninit /\ i \in depth_fresh

\* C27 as claimed: every entry the depth test of draw_filled_triangle compares
\* against holds far or a depth written in the current frame
C27_DepthTestReadsFarOrFresh ==
    [][/\ (FillAStep /\ __tr_z_buffer # NULL)
            => \A i \in DOMAIN PixelsOf(call_args.a) : FarOrFresh(i)
       /\ (FillBStep /\ __tr_z_buffer # NULL)
            => \A i \in DOMAIN PixelsOf(call_args.b) : FarOrFresh(i)]_vars

\* the projected vertices of a triangle of the run
Projected(t) ==
    <<__tr_project_vertex(t[1], TR_MatrixIdentity),
      __tr_project_vertex(t[2], TR_MatrixIdentity),
      __tr_project_vertex(t[3], TR_MatrixIdentity)>>

\* all three projected vertices lie outside the buffer on the same side
OutsideOnOneSide(t) ==
    \/ \A k \in 1..3 : FloatLess(Projected(t)[k].x, FloatOf(0))
    \/ \A k \in 1..3 : ~FloatLess(Projected(t)[k].x, FloatOf(__tr_buffer_width))
    \/ \A k \in 1..3 : FloatLess(Projected(t)[k].y, FloatOf(0))
    \/ \A k \in 1..3 : ~FloatLess(Projected(t)[k].y, FloatOf(__tr_buffer_height))

\* cell i lies in the bounding box of the projected triangle
InBoundingBox(t, i) ==
    LET x == FloatOf(i % __tr_buffer_width)
        y == FloatOf(i \div __tr_buffer_width)
    IN  /\ \E k \in 1..3 : ~FloatLess(x, FloatOf(IntOf(Projected(t)[k].x)))
        /\ \E k \in 1..3 : ~FloatLess(Projected(t)[k].x, x)
        /\ \E k \in 1..3 : ~FloatLess(y, FloatOf(IntOf(Projected(t)[k].y)))
        /\ \E k \in 1..3 : ~FloatLess(Projected(t)[k].y, y)

\* the fill of triangle t wrote nothing if t is outside on one side, and
\* nothing outside its bounding box
WritesWithinTriangle(t) ==
    /\ OutsideOnOneSide(t) => UNCHANGED <<__tr_screen_buffer, __tr_z_buffer>>
    /\ \A i \in 0..(__tr_z_buffer_size - 1) :
          (\/ __tr_z_buffer'[i + 1] # __tr_z_buffer[i + 1]
           \/ __tr_screen_buffer'[i + 1] # __tr_screen_buffer[i + 1])
             => InBoundingBox(t, i)

\* C28 as claimed: draw_filled_triangle writes no cell and no depth entry when
\* the three projected vertices lie outside the buffer on the same side, and
\* never writes outside the bounding box of the projected triangle
C28_FillStaysInsideTriangle ==
    [][/\ (FillAStep /\ __tr_z_buffer # NULL) => WritesWithinTriangle(call_args.a)
       /\ (FillBStep /\ __tr_z_buffer # NULL) => WritesWithinTriangle(call_args.b)]_vars

----------------------------------------------------------------------------
\* The line routine

\* the greater of two numbers
Larger(a, b) == IF a > b THEN a ELSE b

\* the points of the run's line
RunLine == LinePoints(call_args.x1, call_args.y1, call_args.x2, call_args.y2)

\* C24: for every pair of integer end points the line routine returns, having
\* plotted (x1,y1) first and (x2,y2) last, exactly max(|x2-x1|,|y2-y1|)+1 points
\* in all, each at most 1 from the one before in each coordinate, and the
\* buffer holds the points that lie in it
C24_LineEndsAfterExactCount ==
    [][LineStep =>
          /\ proc' = "running"
          /\ RunLine.points[1] = <<call_args.x1, call_args.y1>>
          /\ RunLine.points[Len(RunLine.points)] = <<call_args.x2, call_args.y2>>
          /\ Len(RunLine.points) = Larger(Abs(call_args.x2 - call_args.x1),
                                          Abs(call_args.y2 - call_args.y1)) + 1
          /\ \A k \in 1..(Len(RunLine.points) - 1) :
                /\ Abs(RunLine.points[k + 1][1] - RunLine.points[k][1]) <= 1
                /\ Abs(RunLine.points[k + 1][2] - RunLine.points[k][2]) <= 1
          /\ __tr_screen_buffer' =
                 PlotPoints(__tr_screen_buffer, RunLine.points, 1, RED)]_vars

----------------------------------------------------------------------------
\* The terminal follows the buffers

\* what the terminal shows of a cell: its glyph in its palette colours
ShownCell(cell) ==
    <<cell.character,
      AttrOf(__tr_set_terminal_color(platform, cell.fg_color, cell.bg_color)[1])>>

\* what the terminal shows when every cell of a buffer is drawn
Redrawn(buf) == [i \in 1..Len(buf) |-> ShownCell(buf[i])]

\* a call of TR_InitWindow that opens the window
OpeningStep == ~__tr_window_open /\ __tr_window_open' /\ op' = "TR_InitWindow"

\* C25: after an open and after every flush the terminal shows, cell by cell,
\* the glyph and the palette colours of the previous-frame buffer, and that
\* buffer equals the current buffer: the flush of the changed cells leaves the
\* terminal as a redraw of every cell would
C25_TerminalShowsFlushedBuffer ==
    [][(OpeningStep \/ FlushStep) =>
          /\ display' = Redrawn(__tr_prev_screen_buffer')
          /\ __tr_prev_screen_buffer' = __tr_screen_buffer']_vars

\* a flush wrote one cell and left alone another that an earlier flush had
\* written: the terminal shows both
C25_Witness ==
    /\ op = "TR_EndDrawing"
    /\ __tr_window_open
    /\ Len(out) = 3
    /\ Cardinality({i \in 1..Len(display) : display[i] # ShownCell(Cell(" ", BLACK, BLACK))})
         >= 2
    /\ display = Redrawn(__tr_screen_buffer)

----------------------------------------------------------------------------
\* Keys queued behind the sampled one

\* C29: a begin_frame that samples the input while keys are pending takes
\* exactly the first key event off the pending input and stores it in the
\* last-key slot; the keys queued behind it stay pending, in arrival order, for
\* later frames.  The keys of these sessions are one byte each.
C29_SamplesOneKeyKeepsTheRest ==
    [][(SamplingStep /\ stdin_pending # <<>>)
          => /\ __tr_key_buffer' = Head(stdin_pending)
             /\ stdin_pending' = Tail(stdin_pending)]_vars

----------------------------------------------------------------------------
\* Resizes and flushes

\* the terminal has the size captured at open
SizeAsCaptured == term_size = <<__tr_initial_width, __tr_initial_height>>

\* C30: no flush writes a cell to a terminal whose size differs from the size
\* captured at open, whenever in the session the resize came
C30_NoFlushToResizedTerminal ==
    [][(FlushStep /\ Emits(out', "putc")) => SizeAsCaptured]_vars

====
